---- MODULE Spec2Model ----
(***************************************************************************)
(* cpython-stats: identity resolution (gh_utils.find_user,                 *)
(* gh_utils.most_common_user_in_prs, import_python_core_toml.update_db) on *)
(* the sqlite table email_to_gh_user, the rate limiters gh_utils.nice and  *)
(* import_gh_pr.nice, the PR import pass of import_gh_pr and the commit    *)
(* walk of import_git_repo on the shelve of Change records, and the state  *)
(* of a Change (models.Change.state).                                      *)
(*                                                                         *)
(* Strings are sequences of one-character strings.  An optional value      *)
(* (str | None) is a sequence of length at most one: <<>> is None and      *)
(* <<s>> is the string s.                                                  *)
(***************************************************************************)
EXTENDS Integers, Sequences, FiniteSets, TLC

VARIABLES email_to_gh_user, vote, last, prev, shelf, pass, walk, limiter,
          record, caller, importer

vars == <<email_to_gh_user, vote, last, prev, shelf, pass, walk, limiter,
          record, caller, importer>>

\* The state outside the identity cache and the calls on it: the Change
\* store, the PR import pass, the commit walk, the rate limiter, the Change
\* whose state is read, the caller of the rate limiter and the rate limiter
\* of the PR import pass.
others == <<shelf, pass, walk, limiter, record, caller, importer>>

(***************************************************************************)
(* Bounds.                                                                 *)
(***************************************************************************)
MaxRows == 2
MaxResults == 2
MaxPRs == 2
MaxVotePRs == 12
MaxLocalLen == 3
MaxReads == 2
MaxCommits == 2
MaxTurns == 4

(***************************************************************************)
(* Strings.                                                                *)
(***************************************************************************)
domain ==
    <<"@", "u", "s", "e", "r", "s", ".", "n", "o", "r", "e", "p", "l", "y",
      ".", "g", "i", "t", "h", "u", "b", ".", "c", "o", "m">>

Digits == {"0", "1", "2", "3", "4", "5", "6", "7", "8", "9"}

None == <<>>
Some(s) == <<s>>

EndsWith(s, suffix) ==
    /\ Len(s) >= Len(suffix)
    /\ SubSeq(s, Len(s) - Len(suffix) + 1, Len(s)) = suffix

Contains(s, c) == \E i \in 1..Len(s) : s[i] = c

\* str.split(c, 1): the text before and after the first occurrence of c.
SplitOnce(s, c) ==
    LET i == CHOOSE k \in 1..Len(s) : s[k] = c /\ \A j \in 1..(k - 1) : s[j] # c
    IN  <<SubSeq(s, 1, i - 1), SubSeq(s, i + 1, Len(s))>>

\* int(s) succeeds: an optional sign followed by at least one digit
\* (blanks and underscores, which int() also accepts, are outside the
\* alphabet of the emails below).
IntParses(s) ==
    LET body == IF s # <<>> /\ s[1] \in {"+", "-"} THEN Tail(s) ELSE s
    IN  body # <<>> /\ \A i \in 1..Len(body) : body[i] \in Digits

\* What a call gives back: exc = "" and val on a return, the exception's
\* name otherwise.
Return(v) == [exc |-> "", val |-> v]
Raise(e) == [exc |-> e, val |-> None]

\* Variant: the numeric id is not split off the username.
maybe_github_ui_email_KeepsId(email) ==
    IF EndsWith(email, domain)
    THEN LET user == SubSeq(email, 1, Len(email) - Len(domain))
         IN  IF Contains(user, "+") /\ ~IntParses(SplitOnce(user, "+")[1])
             THEN Raise("ValueError")
             ELSE Return(Some(user))
    ELSE Raise("ValueError")

maybe_github_ui_email(email) ==
    IF EndsWith(email, domain)
    THEN LET user == SubSeq(email, 1, Len(email) - Len(domain))
         IN  IF Contains(user, "+")
             THEN LET parts == SplitOnce(user, "+")
                  IN  IF IntParses(parts[1])
                      THEN Return(Some(parts[2]))
                      ELSE Raise("ValueError")
             ELSE Return(Some(user))
    ELSE Raise("ValueError")

(***************************************************************************)
(* Inputs.                                                                 *)
(***************************************************************************)
NumberedNoreply == <<"1", "+", "a">> \o domain
AlphaNoreply == <<"a", "+", "b">> \o domain
Ordinary == <<"a", "@", "x">>
NoAt == <<"a">>
Empty == <<>>

Emails == {NumberedNoreply, AlphaNoreply, NoAt}

Users == {<<"a">>, <<"b">>}

\* What gh.search_users gives: a failure of the request, or the logins of
\* the accounts found, each listed once.
SearchOutcomes ==
    {[failed |-> TRUE, logins |-> <<>>]} \cup
    {[failed |-> FALSE, logins |-> l] :
        l \in {m \in UNION {[1..n -> Users] : n \in 0..MaxResults} :
                  \A i, j \in 1..Len(m) : m[i] = m[j] => i = j}}

NoSearch == [failed |-> TRUE, logins |-> <<>>]
NoLogins == [failed |-> FALSE, logins |-> <<>>]
OneLogin == [failed |-> FALSE, logins |-> <<(<<"b">>)>>]

\* What repo.get_pull gives: GithubException (None) or the PR's author.
FetchOutcomes == {None} \cup {Some(u) : u \in Users}

(***************************************************************************)
(* The cache database: whether the table email_to_gh_user exists, whether  *)
(* its unique index on email exists, and its rows in rowid order.          *)
(***************************************************************************)
FreshDatabase == [exists |-> FALSE, unique |-> FALSE, rows |-> <<>>]

RowsFor(db, email) == SelectSeq(db.rows, LAMBDA r : r.email = email)

HasDuplicates(rows) ==
    \E i, j \in 1..Len(rows) : i # j /\ rows[i].email = rows[j].email

\* table.insert(row): creates the table when it is missing.
Insert(db, email, gh_user) ==
    IF db.unique /\ RowsFor(db, email) # <<>>
    THEN [db |-> db, exc |-> "IntegrityError"]
    ELSE [db |-> [db EXCEPT !.exists = TRUE,
                            !.rows = Append(@, [email |-> email,
                                                gh_user |-> gh_user])],
          exc |-> ""]

\* table.create_index(["email"], unique=True, if_not_exists=True)
CreateIndex(db) ==
    IF db.unique THEN [db |-> db, exc |-> ""]
    ELSE IF HasDuplicates(db.rows) THEN [db |-> db, exc |-> "IntegrityError"]
    ELSE [db |-> [db EXCEPT !.unique = TRUE], exc |-> ""]

\* sqlite.execute("DELETE FROM email_to_gh_user WHERE email = :email")
Delete(db, email) ==
    IF ~db.exists
    THEN [db |-> db, exc |-> "OperationalError"]
    ELSE [db |-> [db EXCEPT !.rows = SelectSeq(@, LAMBDA r : r.email # email)],
          exc |-> ""]

_get_cached_gh_user_for_email(db, email) ==
    LET cache_rows == IF db.exists THEN RowsFor(db, email) ELSE <<>>
    IN  IF cache_rows # <<>>
        THEN Return(cache_rows[1].gh_user)
        ELSE Raise("LookupError")

(***************************************************************************)
(* Events of one call, in order: what it asked of the rate limiter, of the *)
(* remote API and of the cache.                                            *)
(***************************************************************************)
Count(trace, ev) == Cardinality({i \in 1..Len(trace) : trace[i] = ev})

RECURSIVE Paging(_)
Paging(n) ==
    IF n = 0 THEN <<>> ELSE <<"nice(core,precise)">> \o Paging(n - 1)

Done(db, res, trace) ==
    [db |-> db, exc |-> res.exc, val |-> res.val, trace |-> trace]

(***************************************************************************)
(* gh_utils.find_user                                                      *)
(***************************************************************************)
\* Variant: a search without candidates is not cached.
SearchAndStore_NoTombstone(db, email, found) ==
    LET asked == <<"select", "nice(search,precise)", "search_users">>
        results == found.logins
        listed == asked \o Paging(Len(results))
        ins == Insert(db, email, Some(results[1]))
        idx == CreateIndex(ins.db)
    IN  IF found.failed THEN Done(db, Raise("GithubException"), asked)
        ELSE IF Len(results) > 1 THEN Done(db, Raise("ValueError"), listed)
        ELSE IF Len(results) = 0 THEN Done(db, Raise("LookupError"), listed)
        ELSE IF ins.exc # ""
        THEN Done(db, Raise(ins.exc), listed \o <<"insert">>)
        ELSE Done(idx.db, Return(Some(results[1])),
                  listed \o <<"insert", "create_index">>)

\* Variant: with several candidates the first is cached before ValueError
\* is raised.
SearchAndStore_CachesAmbiguous(db, email, found) ==
    LET asked == <<"select", "nice(search,precise)", "search_users">>
        results == found.logins
        listed == asked \o Paging(Len(results))
        result == IF Len(results) >= 1 THEN Some(results[1]) ELSE None
        ins == Insert(db, email, result)
        idx == CreateIndex(ins.db)
        stored == listed \o <<"insert", "create_index">>
    IN  IF found.failed THEN Done(db, Raise("GithubException"), asked)
        ELSE IF ins.exc # ""
        THEN Done(db, Raise(ins.exc), listed \o <<"insert">>)
        ELSE IF idx.exc # "" THEN Done(ins.db, Raise(idx.exc), stored)
        ELSE IF Len(results) > 1 THEN Done(idx.db, Raise("ValueError"), stored)
        ELSE IF result = None THEN Done(idx.db, Raise("LookupError"), stored)
        ELSE Done(idx.db, Return(Some(result[1])), stored)

\* Lines 36-54: the cache had no row for the email.
SearchAndStore(db, email, found) ==
    LET asked == <<"select", "nice(search,precise)", "search_users">>
        results == found.logins
        listed == asked \o Paging(Len(results))
    IN  IF found.failed THEN Done(db, Raise("GithubException"), asked)
        ELSE IF Len(results) > 1 THEN Done(db, Raise("ValueError"), listed)
        ELSE LET result == IF Len(results) = 1 THEN Some(results[1]) ELSE None
                 ins == Insert(db, email, result)
                 idx == CreateIndex(ins.db)
             IN  IF ins.exc # ""
                 THEN Done(db, Raise(ins.exc), listed \o <<"insert">>)
                 ELSE IF idx.exc # ""
                 THEN Done(ins.db, Raise(idx.exc),
                           listed \o <<"insert", "create_index">>)
                 ELSE IF result = None
                 THEN Done(idx.db, Raise("LookupError"),
                           listed \o <<"insert", "create_index">>)
                 ELSE Done(idx.db, Return(Some(result[1])),
                           listed \o <<"insert", "create_index">>)

\* Variant: a cached null is searched for again.
find_user_RetriesNull(db, email, found) ==
    LET ui == maybe_github_ui_email(email)
        cached == _get_cached_gh_user_for_email(db, email)
    IN  IF ui.exc = "" THEN Done(db, ui, <<>>)
        ELSE IF ~Contains(email, "@") THEN Done(db, Raise("ValueError"), <<>>)
        ELSE IF cached.exc = "LookupError" \/ cached.val = None
        THEN SearchAndStore(db, email, found)
        ELSE Done(db, Return(Some(cached.val[1])), <<"select">>)

\* Variant: the "@" test comes after the cache lookup.
find_user_LateAtTest(db, email, found) ==
    LET ui == maybe_github_ui_email(email)
        cached == _get_cached_gh_user_for_email(db, email)
    IN  IF ui.exc = "" THEN Done(db, ui, <<>>)
        ELSE IF cached.exc = "LookupError"
        THEN IF ~Contains(email, "@")
             THEN Done(db, Raise("ValueError"), <<"select">>)
             ELSE SearchAndStore(db, email, found)
        ELSE IF cached.val = None
        THEN Done(db, Raise("LookupError"), <<"select">>)
        ELSE Done(db, Return(Some(cached.val[1])), <<"select">>)

find_user(db, email, found) ==
    LET ui == maybe_github_ui_email(email)
        cached == _get_cached_gh_user_for_email(db, email)
    IN  IF ui.exc = "" THEN Done(db, ui, <<>>)
        ELSE IF ~Contains(email, "@") THEN Done(db, Raise("ValueError"), <<>>)
        ELSE IF cached.exc = "LookupError" THEN SearchAndStore(db, email, found)
        ELSE IF cached.val = None
        THEN Done(db, Raise("LookupError"), <<"select">>)
        ELSE Done(db, Return(Some(cached.val[1])), <<"select">>)

(***************************************************************************)
(* import_python_core_toml.update_db                                       *)
(***************************************************************************)
\* Variant: a cached username does not end the update and is not deleted.
import_python_core_toml_update_db_Appends(db, email, gh_user) ==
    LET cached == _get_cached_gh_user_for_email(db, email)
        del == IF cached.exc = "" /\ cached.val = None THEN Delete(db, email)
                                  ELSE [db |-> db, exc |-> ""]
        ins == Insert(del.db, email, Some(gh_user))
        asked == IF cached.exc = "" /\ cached.val = None
                 THEN <<"select", "delete", "insert">>
                 ELSE <<"select", "insert">>
    IN  IF email = <<>> \/ gh_user = <<>> THEN Done(db, Return(None), <<>>)
        ELSE IF del.exc # ""
        THEN Done(db, Raise(del.exc), <<"select", "delete">>)
        ELSE IF ins.exc # "" THEN Done(db, Raise(ins.exc), asked)
        ELSE Done(ins.db, Return(None), asked)

import_python_core_toml_update_db(db, email, gh_user) ==
    LET cached == _get_cached_gh_user_for_email(db, email)
        del == IF cached.exc = "" THEN Delete(db, email)
                                  ELSE [db |-> db, exc |-> ""]
        ins == Insert(del.db, email, Some(gh_user))
        asked == IF cached.exc = "" THEN <<"select", "delete", "insert">>
                                    ELSE <<"select", "insert">>
    IN  IF email = <<>> \/ gh_user = <<>> THEN Done(db, Return(None), <<>>)
        ELSE IF cached.exc = "" /\ cached.val # None
        THEN Done(db, Return(None), <<"select">>)
        ELSE IF del.exc # ""
        THEN Done(db, Raise(del.exc), <<"select", "delete">>)
        ELSE IF ins.exc # "" THEN Done(db, Raise(ins.exc), asked)
        ELSE Done(ins.db, Return(None), asked)

(***************************************************************************)
(* gh_utils.most_common_user_in_prs                                        *)
(***************************************************************************)
Threshold == 10

NoAuthors == [u \in Users |-> 0]

\* pr_authors[pr.user.login] += 1; order is the Counter's insertion order.
CountAuthor(pr_authors, login) == [pr_authors EXCEPT ![login] = @ + 1]

\* Counter.most_common(1)[0]: the first of the authors with the largest
\* count, in insertion order.
most_common(pr_authors, order) ==
    LET i == CHOOSE k \in 1..Len(order) :
                 /\ \A j \in 1..Len(order) :
                        pr_authors[order[j]] <= pr_authors[order[k]]
                 /\ \A j \in 1..(k - 1) :
                        pr_authors[order[j]] < pr_authors[order[k]]
    IN  <<order[i], pr_authors[order[i]]>>

\* Line 91: the test that ends the loop.
ReachedThreshold(pr_authors, order) ==
    most_common(pr_authors, order)[2] >= Threshold

\* Variant: the result is returned and the old row deleted, but no row is
\* inserted.
StoreMostCommon_NoInsert(db, email, pr_authors, order, trace) ==
    LET result == most_common(pr_authors, order)[1]
        del == Delete(db, email)
    IN  IF order = <<>> THEN Done(db, Raise("LookupError"), trace)
        ELSE IF del.exc # ""
        THEN Done(db, Raise(del.exc), trace \o <<"delete">>)
        ELSE Done(del.db, Return(Some(result)), trace \o <<"delete">>)

\* Variant: the old row is deleted before the test for an empty counter.
StoreMostCommon_DeletesFirst(db, email, pr_authors, order, trace) ==
    LET result == most_common(pr_authors, order)[1]
        del == Delete(db, email)
        ins == Insert(del.db, email, Some(result))
    IN  IF del.exc # ""
        THEN Done(db, Raise(del.exc), trace \o <<"delete">>)
        ELSE IF order = <<>>
        THEN Done(del.db, Raise("LookupError"), trace \o <<"delete">>)
        ELSE IF ins.exc # ""
        THEN Done(db, Raise(ins.exc), trace \o <<"delete", "insert">>)
        ELSE Done(ins.db, Return(Some(result)), trace \o <<"delete", "insert">>)

\* Lines 94-103: after the loop.
StoreMostCommon(db, email, pr_authors, order, trace) ==
    LET result == most_common(pr_authors, order)[1]
        del == Delete(db, email)
        ins == Insert(del.db, email, Some(result))
    IN  IF order = <<>> THEN Done(db, Raise("LookupError"), trace)
        ELSE IF del.exc # ""
        THEN Done(db, Raise(del.exc), trace \o <<"delete">>)
        ELSE IF ins.exc # ""
        THEN Done(db, Raise(ins.exc), trace \o <<"delete", "insert">>)
        ELSE Done(ins.db, Return(Some(result)), trace \o <<"delete", "insert">>)

(***************************************************************************)
(* State.                                                                  *)
(*   email_to_gh_user  the cache database                                  *)
(*   vote              the position of a running most_common_user_in_prs   *)
(*   last              the call that returned last (none while a vote is   *)
(*                     running): its arguments, what it gave, its events,  *)
(*                     the database before it, and, for a vote, the        *)
(*                     successful fetches per author                       *)
(*   prev              the call before a find_user, when on the same email *)
(***************************************************************************)
Idle ==
    [pc |-> "idle", email |-> Empty, todo |-> {}, candidates |-> 0,
     pr_authors |-> NoAuthors, order |-> <<>>, fetched |-> NoAuthors,
     trace |-> <<>>, before |-> FreshDatabase]

NoCall ==
    [op |-> "none", email |-> Empty, exc |-> "", val |-> None, trace |-> <<>>,
     before |-> FreshDatabase, candidates |-> 0, fetched |-> NoAuthors,
     found |-> None]

\* found: the logins search_users listed in this call, None when it was not
\* asked or failed.
Call(op, email, res, before, candidates, fetched, found) ==
    [op |-> op, email |-> email, exc |-> res.exc, val |-> res.val,
     trace |-> res.trace, before |-> before, candidates |-> candidates,
     fetched |-> fetched,
     found |-> IF Count(res.trace, "search_users") > 0 /\ ~found.failed
               THEN Some(found.logins) ELSE None]

\* What the cache held for the email: "absent", "null" or "user".
Entry(db, email) ==
    LET rows == IF db.exists THEN RowsFor(db, email) ELSE <<>>
    IN  IF rows = <<>> THEN "absent"
        ELSE IF rows[1].gh_user = None THEN "null" ELSE "user"

Before(call) ==
    [op |-> call.op, email |-> call.email, exc |-> call.exc, val |-> call.val,
     trace |-> call.trace, found |-> call.found,
     entry |-> Entry(call.before, call.email)]

Returned(op, email, res, before, candidates, fetched, found) ==
    /\ Len(res.db.rows) <= MaxRows
    /\ email_to_gh_user' = res.db
    /\ last' = Call(op, email, res, before, candidates, fetched, found)
    /\ prev' = IF op = "find_user" /\ last.op # "none" /\ last.email = email
               THEN Before(last) ELSE Before(NoCall)

\* A part of the program that takes no step in the specification at hand.
Unused == [pc |-> "unused"]

\* The shelve without a record.
EmptyShelf == <<>>

Init ==
    /\ email_to_gh_user = FreshDatabase
    /\ vote = Idle
    /\ last = NoCall
    /\ prev = Before(NoCall)
    /\ shelf = EmptyShelf
    /\ pass = Unused
    /\ walk = Unused
    /\ limiter = Unused
    /\ record = Unused
    /\ caller = Unused
    /\ importer = Unused

\* The answer of a search that is not made does not matter: one is drawn.
FindUser(email, found) ==
    LET res == find_user(email_to_gh_user, email, found)
    IN  /\ vote.pc = "idle"
        /\ Count(res.trace, "search_users") = 0 => found = NoSearch
        /\ Returned("find_user", email, res, email_to_gh_user, 0, NoAuthors,
                    found)
        /\ UNCHANGED <<vote, others>>

TomlUpdate(email, gh_user) ==
    /\ vote.pc = "idle"
    /\ Returned("update_db", email,
                import_python_core_toml_update_db(email_to_gh_user, email,
                                                  gh_user),
                email_to_gh_user, 0, NoAuthors, NoSearch)
    /\ UNCHANGED <<vote, others>>

\* Lines 75-81: the cached username is returned at once; otherwise the loop
\* over prs starts.
MostCommonCall(email, prs) ==
    LET cached == _get_cached_gh_user_for_email(email_to_gh_user, email)
        result == IF cached.exc = "LookupError" THEN None ELSE cached.val
    IN  /\ vote.pc = "idle"
        /\ UNCHANGED others
        /\ IF result # None
           THEN /\ Returned("most_common_user_in_prs", email,
                            Done(email_to_gh_user, Return(Some(result[1])),
                                 <<"select">>),
                            email_to_gh_user, Cardinality(prs), NoAuthors,
                            NoSearch)
                /\ UNCHANGED vote
           ELSE /\ vote' = [Idle EXCEPT
                               !.pc = IF prs = {} THEN "after" ELSE "loop",
                               !.email = email, !.todo = prs,
                               !.candidates = Cardinality(prs),
                               !.trace = <<"select">>,
                               !.before = email_to_gh_user]
                /\ last' = NoCall
                /\ prev' = Before(NoCall)
                /\ UNCHANGED email_to_gh_user

\* Lines 83-92: one turn of the loop, on the next PR of the set.
MostCommonFetch(pr) ==
    LET pr_id == CHOOSE p \in vote.todo : \A q \in vote.todo : p <= q
        todo == vote.todo \ {pr_id}
        asked == vote.trace \o <<"nice(core,precise)", "get_pull">>
        pr_authors == IF pr = None THEN vote.pr_authors
                      ELSE CountAuthor(vote.pr_authors, pr[1])
        order == IF pr = None \/ Contains(vote.order, pr[1]) THEN vote.order
                 ELSE Append(vote.order, pr[1])
        fetched == IF pr = None THEN vote.fetched
                   ELSE [vote.fetched EXCEPT ![pr[1]] = @ + 1]
        break == pr # None /\ ReachedThreshold(pr_authors, order)
    IN  /\ vote.pc = "loop"
        /\ vote' = [vote EXCEPT
                       !.pc = IF break \/ todo = {} THEN "after" ELSE "loop",
                       !.todo = todo, !.pr_authors = pr_authors,
                       !.order = order, !.fetched = fetched, !.trace = asked]
        /\ UNCHANGED <<email_to_gh_user, last, prev, others>>

MostCommonReturn ==
    /\ vote.pc = "after"
    /\ Returned("most_common_user_in_prs", vote.email,
                StoreMostCommon(email_to_gh_user, vote.email, vote.pr_authors,
                                vote.order, vote.trace),
                vote.before, vote.candidates, vote.fetched, NoSearch)
    /\ vote' = Idle
    /\ UNCHANGED others

Next ==
    \/ \E email \in Emails, found \in SearchOutcomes : FindUser(email, found)
    \/ \E email \in Emails \cup {Empty}, gh_user \in Users \cup {Empty} :
           TomlUpdate(email, gh_user)
    \/ \E email \in Emails, n \in 0..MaxPRs : MostCommonCall(email, 1..n)
    \/ \E pr \in FetchOutcomes : MostCommonFetch(pr)
    \/ MostCommonReturn

Spec == Init /\ [][Next]_vars

(***************************************************************************)
(* The vote alone, on candidate sets large enough to reach the threshold,  *)
(* from the caches find_user leaves for the email.                         *)
(***************************************************************************)
VoteCaches ==
    {FreshDatabase,
     find_user(FreshDatabase, Ordinary, NoLogins).db,
     find_user(FreshDatabase, Ordinary, OneLogin).db,
     find_user(FreshDatabase, AlphaNoreply, NoLogins).db}

InitVote ==
    /\ email_to_gh_user \in VoteCaches
    /\ vote = Idle
    /\ last = NoCall
    /\ prev = Before(NoCall)
    /\ shelf = EmptyShelf
    /\ pass = Unused
    /\ walk = Unused
    /\ limiter = Unused
    /\ record = Unused
    /\ caller = Unused
    /\ importer = Unused

NextVote ==
    \/ \E n \in 0..MaxVotePRs : MostCommonCall(Ordinary, 1..n)
    \/ \E pr \in FetchOutcomes : MostCommonFetch(pr)
    \/ MostCommonReturn

SpecVote == InitVote /\ [][NextVote]_vars

(***************************************************************************)
(* Vocabulary of the properties.                                           *)
(***************************************************************************)
RECURSIVE Total(_, _)
Total(f, S) ==
    IF S = {} THEN 0
    ELSE LET u == CHOOSE x \in S : TRUE IN f[u] + Total(f, S \ {u})

Searches(call) == Count(call.trace, "search_users")

Throttles(call) ==
    Count(call.trace, "nice(search,precise)")
        + Count(call.trace, "nice(core,precise)")

\* The email gets past lines 25-31 of find_user.
ReachesCache(email) ==
    Contains(email, "@") /\ maybe_github_ui_email(email).exc # ""

\* The rows of the email, in the database as it is and as it was before the
\* last call.
RowsNow(email) == RowsFor(email_to_gh_user, email)
RowsBefore(call) == RowsFor(call.before, call.email)

\* The names <name> for which the email reads <digits>+<name>@domain, or
\* <name>@domain with no "+" in <name>.
NoreplyNames(email) ==
    IF ~EndsWith(email, domain) THEN {}
    ELSE LET local == SubSeq(email, 1, Len(email) - Len(domain))
         IN  {SubSeq(local, k + 2, Len(local)) :
                 k \in {n \in 1..(Len(local) - 1) :
                           /\ local[n + 1] = "+"
                           /\ \A i \in 1..n : local[i] \in Digits}}
             \cup (IF Contains(local, "+") THEN {} ELSE {local})

LocalChars == {"1", "a", "+"}

Locals == UNION {[1..n -> LocalChars] : n \in 0..MaxLocalLen}

\* Two consecutive find_user calls on an email that gets to the cache and
\* had no row there, the first of which had its search answered.
SearchedTwice ==
    /\ last.op = "find_user" /\ prev.op = "find_user"
    /\ ReachesCache(last.email)
    /\ prev.entry = "absent"
    /\ prev.found # None

(***************************************************************************)
(* C1                                                                      *)
(***************************************************************************)
\* C1, as claimed: two consecutive find_user calls on an email with "@",
\* not a noreply match and without a cache row make one search_users call
\* in total and the second is answered from the cache, however many
\* candidates the search lists.
C1_AsClaimed ==
    SearchedTwice =>
        /\ Searches(prev) + Searches(last) = 1
        /\ Entry(last.before, last.email) # "absent"

\* C1, amended: the same when the first search lists zero or one candidate
\* (with several candidates nothing is cached and the second call searches
\* again).
C1_CacheIdempotence ==
    SearchedTwice /\ Len(prev.found[1]) <= 1 =>
        /\ Searches(prev) + Searches(last) = 1
        /\ Entry(last.before, last.email) # "absent"
        /\ last.trace = <<"select">>

C1_Witness ==
    /\ SearchedTwice
    /\ Len(prev.found[1]) = 1
    /\ Searches(prev) = 1 /\ Searches(last) = 0
    /\ last.exc = "" /\ last.val = prev.val

(***************************************************************************)
(* C2                                                                      *)
(***************************************************************************)
\* C2: find_user searches only when the email has no cache row; with no
\* candidate it stores a null entry and raises LookupError, with one
\* candidate it stores and returns that username, with several it raises
\* ValueError and leaves the cache as it was.
C2_SearchOutcome ==
    last.op = "find_user" =>
        /\ Searches(last) > 0 => Entry(last.before, last.email) = "absent"
        /\ last.found # None =>
             LET logins == last.found[1]
                 stored(gh_user) ==
                     email_to_gh_user.rows =
                         Append(last.before.rows,
                                [email |-> last.email, gh_user |-> gh_user])
             IN  /\ Len(logins) = 0 =>
                        last.exc = "LookupError" /\ stored(None)
                 /\ Len(logins) = 1 =>
                        /\ last.exc = "" /\ last.val = Some(logins[1])
                        /\ stored(Some(logins[1]))
                 /\ Len(logins) > 1 =>
                        /\ last.exc = "ValueError"
                        /\ email_to_gh_user = last.before

C2_Witness ==
    /\ last.op = "find_user"
    /\ last.found # None /\ Len(last.found[1]) = 0
    /\ last.exc = "LookupError"
    /\ RowsNow(last.email) = <<[email |-> last.email, gh_user |-> None]>>
    /\ RowsBefore(last) = <<>>

(***************************************************************************)
(* C3                                                                      *)
(***************************************************************************)
\* C3, as claimed: for an email that has a cache row find_user calls neither
\* search_users nor the rate limiter and leaves the cache unchanged; a row
\* with a username makes it return that username, a row with null makes it
\* raise LookupError.
C3_AsClaimed ==
    last.op = "find_user" /\ Entry(last.before, last.email) # "absent" =>
        /\ Searches(last) = 0 /\ Throttles(last) = 0
        /\ email_to_gh_user = last.before
        /\ Entry(last.before, last.email) = "user" =>
               last.exc = "" /\ last.val = RowsBefore(last)[1].gh_user
        /\ Entry(last.before, last.email) = "null" =>
               last.exc = "LookupError"

\* C3, amended: the same, the returned value and the LookupError being those
\* of the row only for an email that has an "@" and is not a noreply match
\* (the other emails are answered before the cache is looked at).
C3_CacheFirst ==
    last.op = "find_user" /\ Entry(last.before, last.email) # "absent" =>
        /\ Searches(last) = 0 /\ Throttles(last) = 0
        /\ email_to_gh_user = last.before
        /\ ReachesCache(last.email) =>
             /\ Entry(last.before, last.email) = "user" =>
                    last.exc = "" /\ last.val = RowsBefore(last)[1].gh_user
             /\ Entry(last.before, last.email) = "null" =>
                    last.exc = "LookupError"

C3_Witness ==
    /\ last.op = "find_user"
    /\ ReachesCache(last.email)
    /\ Entry(last.before, last.email) = "null"
    /\ last.exc = "LookupError"
    /\ last.trace = <<"select">>

(***************************************************************************)
(* C4                                                                      *)
(***************************************************************************)
\* On every noreply email of one of the two forms with a local part of at
\* most MaxLocalLen characters, find_user gives <name> and asks nothing.
StructuralMatches ==
    \A local \in Locals :
        \A name \in NoreplyNames(local \o domain) :
            find_user(FreshDatabase, local \o domain, OneLogin) =
                Done(FreshDatabase, Return(Some(name)), <<>>)

\* C4: for an email <digits>+<name>@users.noreply.github.com, or
\* <name>@users.noreply.github.com with no "+" in <name>, find_user returns
\* <name> and asks nothing of the cache, the rate limiter or the remote API:
\* so did the last call, whatever the cache held, and so does a call on any
\* such email with a local part of at most MaxLocalLen characters.
C4_StructuralMatch ==
    /\ last.op = "find_user" =>
           \A name \in NoreplyNames(last.email) :
               /\ last.exc = "" /\ last.val = Some(name)
               /\ last.trace = <<>>
               /\ email_to_gh_user = last.before
    /\ StructuralMatches

C4_Witness ==
    /\ last.op = "find_user"
    /\ last.email = NumberedNoreply
    /\ NoreplyNames(last.email) = {<<"a">>}
    /\ last.val = Some(<<"a">>)
    /\ last.before.exists

(***************************************************************************)
(* C5                                                                      *)
(***************************************************************************)
\* C5: for an email without "@" find_user raises ValueError and asks nothing
\* of the cache, the rate limiter or the remote API.
C5_InvalidInput ==
    last.op = "find_user" /\ ~Contains(last.email, "@") =>
        /\ last.exc = "ValueError"
        /\ last.trace = <<>>
        /\ email_to_gh_user = last.before

C5_Witness ==
    /\ last.op = "find_user"
    /\ last.email = NoAt
    /\ last.exc = "ValueError"
    /\ Entry(last.before, last.email) = "user"

(***************************************************************************)
(* C6                                                                      *)
(***************************************************************************)
\* C6: the cache table holds at most one row per email.
C6_OneRowPerEmail == ~HasDuplicates(email_to_gh_user.rows)

C6_Witness ==
    /\ last.op = "update_db"
    /\ Entry(last.before, last.email) = "null"
    /\ Len(RowsNow(last.email)) = 1
    /\ RowsNow(last.email)[1].gh_user # None
    /\ Len(email_to_gh_user.rows) = 2

(***************************************************************************)
(* C7                                                                      *)
(***************************************************************************)
Fetches(call) == Count(call.trace, "get_pull")

\* C7: when the cache holds no username for the email and at least one
\* candidate PR was fetched, most_common_user_in_prs returns an author with
\* the largest number of successfully fetched PRs.
C7_MajorityVote ==
    /\ last.op = "most_common_user_in_prs"
    /\ Entry(last.before, last.email) # "user"
    /\ Total(last.fetched, Users) > 0
    => /\ last.exc = ""
       /\ \E u \in Users :
              /\ last.val = Some(u)
              /\ \A v \in Users : last.fetched[v] <= last.fetched[u]

(***************************************************************************)
(* C8                                                                      *)
(***************************************************************************)
\* C8: once an author has Threshold successfully fetched PRs, the next step
\* of most_common_user_in_prs is its return: no further get_pull, no further
\* rate-limiter check, and that author is the result.
C8_ShortCircuit ==
    [][\A u \in Users :
          vote.pc # "idle" /\ vote.fetched[u] >= Threshold =>
              /\ vote'.pc = "idle"
              /\ Fetches(last') = Fetches(vote)
              /\ Throttles(last') = Throttles(vote)
              /\ last'.exc = "" /\ last'.val = Some(u)]_vars

(***************************************************************************)
(* C9                                                                      *)
(***************************************************************************)
VoteStored ==
    /\ last.op = "most_common_user_in_prs"
    /\ last.exc = ""
    /\ Entry(last.before, last.email) # "user"
    => RowsNow(last.email) = <<[email |-> last.email, gh_user |-> last.val]>>

AfterVote ==
    /\ last.op = "find_user"
    /\ prev.op = "most_common_user_in_prs"
    /\ prev.exc = ""
    /\ prev.entry # "user"

\* C9, as claimed: after most_common_user_in_prs succeeded for an email whose
\* cache entry was null or absent the cache holds one entry for the email,
\* the returned username, and a following find_user on the email returns
\* that username without a search.
C9_AsClaimed ==
    /\ VoteStored
    /\ AfterVote =>
           last.exc = "" /\ last.val = prev.val /\ Searches(last) = 0

\* C9, amended: the same, the following find_user returning the username
\* when the email has an "@" and is not a noreply match.
C9_VoteOverwrites ==
    /\ VoteStored
    /\ AfterVote /\ ReachesCache(last.email) =>
           last.exc = "" /\ last.val = prev.val /\ Searches(last) = 0

C9_Witness ==
    /\ AfterVote
    /\ ReachesCache(last.email)
    /\ prev.entry = "null"
    /\ last.val = prev.val
    /\ RowsNow(last.email) = <<[email |-> last.email, gh_user |-> last.val]>>

(***************************************************************************)
(* C10                                                                     *)
(***************************************************************************)
\* No candidate PR can be fetched: there is none, or each was asked for and
\* none was given.
NoneFetched(call) ==
    \/ call.candidates = 0
    \/ Fetches(call) = call.candidates /\ Total(call.fetched, Users) = 0

\* C10, as claimed: when no candidate PR can be fetched
\* most_common_user_in_prs raises LookupError and leaves the cache as it was.
C10_AsClaimed ==
    last.op = "most_common_user_in_prs" /\ NoneFetched(last) =>
        last.exc = "LookupError" /\ email_to_gh_user = last.before

\* C10, amended: the same when the cache holds no username for the email (a
\* cached username is returned without any fetch).
C10_VoteFails ==
    /\ last.op = "most_common_user_in_prs"
    /\ NoneFetched(last)
    /\ Entry(last.before, last.email) # "user"
    => last.exc = "LookupError" /\ email_to_gh_user = last.before

C10_Witness ==
    /\ last.op = "most_common_user_in_prs"
    /\ last.candidates = 3 /\ Fetches(last) = 3
    /\ Total(last.fetched, Users) = 0
    /\ Entry(last.before, last.email) = "null"
    /\ last.exc = "LookupError"

(***************************************************************************)
(* models.py: Change and its sentinels.  A datetime is a number of seconds *)
(* and datetime | None an optional one.                                    *)
(***************************************************************************)
NotMerged == <<>>
UnknownPR == 0
NoUser == <<>>

\* Change.__dataclass_fields__, in the order of the class.
Fields ==
    <<"title", "description", "files", "branch", "contributors", "opened_at",
      "merged_at", "closed_at", "updated_at", "commit_id", "pr_id", "comments",
      "labels">>

FieldNames == {Fields[i] : i \in 1..Len(Fields)}

\* bool(value) of a field's value: a str, a list and a datetime | None are
\* false when empty or None, description (pr.body) is a str | None, the
\* sets are false when empty and pr_id when 0.
Truthy(field, value) ==
    IF field = "description" THEN value # None /\ value[1] # <<>>
    ELSE IF field \in {"contributors", "labels"} THEN value # {}
    ELSE IF field = "pr_id" THEN value # 0
    ELSE value # <<>>

(***************************************************************************)
(* The pull requests the remote API lists.                                 *)
(***************************************************************************)
\* NamedUser | None; the login of an incompletable one raises
\* IncompletableObject.
NoNamedUser == [kind |-> "none", login |-> <<>>]
Incompletable == [kind |-> "incompletable", login |-> <<>>]
NamedUser(login) == [kind |-> "user", login |-> login]

\* The Last-Modified header of the response, and dateutil's
\* parse(header, ignoretz=True): the date and time without the zone.
HttpDate(t) == [seconds |-> t, zone |-> "GMT"]
dt_parse(header) == header.seconds

PullA ==
    [number |-> 1, title |-> <<"t">>, body |-> Some(<<"d">>),
     files |-> <<[filename |-> <<"f">>, additions |-> 1, deletions |-> 0,
                  changes |-> 1]>>,
     ref |-> <<"m">>,
     user |-> NamedUser(<<"a">>), merged_by |-> NamedUser(<<"b">>),
     commits |-> <<[author |-> NamedUser(<<"a">>),
                    committer |-> Incompletable]>>,
     issue_comments |-> <<[user |-> NamedUser(<<"a">>), body |-> <<"c">>],
                          [user |-> NoNamedUser, body |-> <<"g">>]>>,
     reviews |-> <<[user |-> NamedUser(<<"b">>), body |-> None,
                    state |-> <<"APPROVED">>],
                   [user |-> NamedUser(<<"b">>), body |-> Some(<<>>),
                    state |-> <<"COMMENTED">>]>>,
     review_comments |-> <<[user |-> NamedUser(<<"b">>), body |-> <<"r">>]>>,
     labels |-> <<(<<"l">>)>>,
     created_at |-> Some(1), merged_at |-> Some(2), closed_at |-> Some(2),
     updated_at |-> Some(2), last_modified |-> None]

PullB ==
    [number |-> 1, title |-> <<"u">>, body |-> Some(<<"e">>),
     files |-> <<[filename |-> <<"f">>, additions |-> 2, deletions |-> 1,
                  changes |-> 3],
                 [filename |-> <<"g">>, additions |-> 0, deletions |-> 1,
                  changes |-> 1]>>,
     ref |-> <<"3">>,
     user |-> NamedUser(<<"b">>), merged_by |-> NamedUser(<<"a">>),
     commits |-> <<[author |-> NoNamedUser,
                    committer |-> NamedUser(<<"b">>)]>>,
     issue_comments |-> <<[user |-> Incompletable, body |-> <<"g">>]>>,
     reviews |-> <<[user |-> NamedUser(<<"a">>), body |-> Some(<<"k">>),
                    state |-> <<"CHANGES_REQUESTED">>],
                   [user |-> NoNamedUser, body |-> Some(<<"k">>),
                    state |-> <<"APPROVED">>]>>,
     review_comments |-> <<[user |-> NoNamedUser, body |-> <<"r">>]>>,
     labels |-> <<(<<"l">>), (<<"n">>)>>,
     created_at |-> Some(1), merged_at |-> Some(3), closed_at |-> Some(3),
     updated_at |-> Some(3), last_modified |-> None]

\* What a response can lack.
Aspects ==
    {"title", "body", "body_empty", "files", "ref", "people", "discussion",
     "labels", "created_at", "merged_at", "closed_at", "updated_at"}

Blanked(pr, S) ==
    [pr EXCEPT
        !.title = IF "title" \in S THEN <<>> ELSE @,
        !.body = IF "body" \in S THEN None
                 ELSE IF "body_empty" \in S THEN Some(<<>>) ELSE @,
        !.files = IF "files" \in S THEN <<>> ELSE @,
        !.ref = IF "ref" \in S THEN <<>> ELSE @,
        !.user = IF "people" \in S THEN NoNamedUser ELSE @,
        !.merged_by = IF "people" \in S THEN NoNamedUser ELSE @,
        !.commits = IF "people" \in S THEN <<>> ELSE @,
        !.issue_comments = IF "discussion" \in S THEN <<>> ELSE @,
        !.reviews = IF "discussion" \in S THEN <<>> ELSE @,
        !.review_comments = IF "discussion" \in S THEN <<>> ELSE @,
        !.labels = IF "labels" \in S THEN <<>> ELSE @,
        !.created_at = IF "created_at" \in S THEN None ELSE @,
        !.merged_at = IF "merged_at" \in S THEN None ELSE @,
        !.closed_at = IF "closed_at" \in S THEN None ELSE @,
        !.updated_at = IF "updated_at" \in S THEN None ELSE @]

Headers == {None, Some(HttpDate(2))}

\* The two pull requests, whole or lacking one aspect, with and without the
\* header.
PullRequests ==
    {[Blanked(pr, S) EXCEPT !.last_modified = h] :
        pr \in {PullA, PullB},
        S \in {{}} \cup {{aspect} : aspect \in Aspects},
        h \in Headers}

(***************************************************************************)
(* import_gh_pr.py                                                         *)
(***************************************************************************)
maybe_user(nu) == IF nu.kind = "user" THEN nu.login ELSE NoUser

\* Lines 135-141: the comments the reviews give.
RECURSIVE ReviewComments(_)
ReviewComments(reviews) ==
    IF reviews = <<>> THEN <<>>
    ELSE LET review == Head(reviews)
             author == maybe_user(review.user)
             rest == ReviewComments(Tail(reviews))
         IN  IF author = NoUser THEN rest
             ELSE IF review.body # None /\ review.body[1] # <<>>
             THEN <<[author |-> author, text |-> review.body[1]]>> \o rest
             ELSE IF review.state # <<"COMMENTED">>
             THEN <<[author |-> author, text |-> review.state]>> \o rest
             ELSE rest

\* Lines 127-134 and 142-145: the comments of users that can be named.
RECURSIVE UserComments(_)
UserComments(comments) ==
    IF comments = <<>> THEN <<>>
    ELSE LET comment == Head(comments)
             author == maybe_user(comment.user)
             rest == UserComments(Tail(comments))
         IN  IF author = NoUser THEN rest
             ELSE <<[author |-> author, text |-> comment.body]>> \o rest

new_change_from(pr) ==
    LET named == {pr.user, pr.merged_by}
                 \cup {pr.commits[i].author : i \in 1..Len(pr.commits)}
                 \cup {pr.commits[i].committer : i \in 1..Len(pr.commits)}
    IN  [title |-> pr.title,
         description |-> pr.body,
         files |-> [i \in 1..Len(pr.files) |->
                       [name |-> pr.files[i].filename,
                        additions |-> pr.files[i].additions,
                        deletions |-> pr.files[i].deletions,
                        changes |-> pr.files[i].changes]],
         branch |-> pr.ref,
         contributors |-> {maybe_user(nu) : nu \in named} \ {NoUser},
         opened_at |-> pr.created_at,
         merged_at |-> pr.merged_at,
         closed_at |-> pr.closed_at,
         updated_at |-> pr.updated_at,
         commit_id |-> NotMerged,
         pr_id |-> pr.number,
         comments |-> UserComments(pr.issue_comments)
                          \o ReviewComments(pr.reviews)
                          \o UserComments(pr.review_comments),
         labels |-> {pr.labels[i] : i \in 1..Len(pr.labels)}]

\* Variant: every field takes the fetched value.
update_in_place_TakesNew(old, pr) == new_change_from(pr)

\* Variant: the fetched comments are added to the stored ones.
update_in_place_AddsComments(old, pr) ==
    LET current == new_change_from(pr)
    IN  [field \in FieldNames |->
            IF field = "comments" THEN old.comments \o current.comments
            ELSE IF Truthy(field, current[field]) \/ ~Truthy(field, old[field])
            THEN current[field]
            ELSE old[field]]

\* The stored record after lines 93-102.
update_in_place(old, pr) ==
    LET current == new_change_from(pr)
    IN  [field \in FieldNames |->
            IF Truthy(field, current[field]) \/ ~Truthy(field, old[field])
            THEN current[field]
            ELSE old[field]]

\* Variant: the header is compared with merged_at only.
is_up_to_date_MergedOnly(old, pr) ==
    IF pr.updated_at # None THEN Return(old.updated_at = pr.updated_at)
    ELSE IF pr.last_modified # None
    THEN LET last_mod == dt_parse(pr.last_modified[1])
         IN  Return(old.merged_at # None /\ Some(last_mod) = old.merged_at)
    ELSE Raise("ValueError")

is_up_to_date(old, pr) ==
    IF pr.updated_at # None THEN Return(old.updated_at = pr.updated_at)
    ELSE IF pr.last_modified # None
    THEN LET last_mod == dt_parse(pr.last_modified[1])
         IN  IF old.merged_at # None /\ Some(last_mod) = old.merged_at
             THEN Return(TRUE)
             ELSE IF old.closed_at # None /\ Some(last_mod) = old.closed_at
             THEN Return(TRUE)
             ELSE Return(FALSE)
    ELSE Raise("ValueError")

\* f"GH-{pr.number}"
Key(number) == <<"GH-", number>>

Stored(store, pr_id) ==
    IF pr_id \in DOMAIN store THEN Some(store[pr_id]) ELSE None

Put(store, pr_id, change) ==
    [k \in DOMAIN store \cup {pr_id} |-> IF k = pr_id THEN change ELSE store[k]]

\* Variant: a record that cannot be rebuilt is taken out of the store.
ImportTurn_DropsOnError(store, pr, built) ==
    LET pr_id == Key(pr.number)
        old == Stored(store, pr_id)
        fresh == is_up_to_date(old[1], pr)
        skipped(exc) == [db |-> [k \in DOMAIN store \ {pr_id} |-> store[k]],
                         outcome |-> "error", exc |-> exc]
    IN  IF old # None
        THEN IF fresh.exc # "" THEN skipped(fresh.exc)
             ELSE IF fresh.val
             THEN [db |-> store, outcome |-> "skipping", exc |-> ""]
             ELSE IF ~built THEN skipped("GithubException")
             ELSE [db |-> Put(store, pr_id, update_in_place(old[1], pr)),
                   outcome |-> "updating", exc |-> ""]
        ELSE IF ~built THEN skipped("GithubException")
        ELSE [db |-> Put(store, pr_id, new_change_from(pr)),
              outcome |-> "importing", exc |-> ""]

\* Lines 45-71 of update_db: one turn of the loop over the listed pull
\* requests.  built says whether new_change_from gets what it asks of the
\* remote API; when it does not, the exception is that of the request.
ImportTurn(store, pr, built) ==
    LET pr_id == Key(pr.number)
        old == Stored(store, pr_id)
        fresh == is_up_to_date(old[1], pr)
        skipped(exc) == [db |-> store, outcome |-> "error", exc |-> exc]
    IN  IF old # None
        THEN IF fresh.exc # "" THEN skipped(fresh.exc)
             ELSE IF fresh.val
             THEN [db |-> store, outcome |-> "skipping", exc |-> ""]
             ELSE IF ~built THEN skipped("GithubException")
             ELSE [db |-> Put(store, pr_id, update_in_place(old[1], pr)),
                   outcome |-> "updating", exc |-> ""]
        ELSE IF ~built THEN skipped("GithubException")
        ELSE [db |-> Put(store, pr_id, new_change_from(pr)),
              outcome |-> "importing", exc |-> ""]

\* Whether the turn gets to new_change_from.
Builds(store, pr) ==
    LET old == Stored(store, Key(pr.number))
    IN  old = None
        \/ LET fresh == is_up_to_date(old[1], pr)
           IN  fresh.exc = "" /\ ~fresh.val

(***************************************************************************)
(* The PR import pass on its own.                                          *)
(*   shelf   the Change store                                              *)
(*   pass    the last turn of the pass: the pull request, the record it    *)
(*           found, whether the Change could be built, and what came of it *)
(***************************************************************************)
NoTurn ==
    [outcome |-> "none", exc |-> "", pr |-> None, old |-> None,
     built |-> TRUE]

ImportPull(pr, built) ==
    LET turn == ImportTurn(shelf, pr, built)
    IN  /\ ~Builds(shelf, pr) => built
        /\ shelf' = turn.db
        /\ pass' = [outcome |-> turn.outcome, exc |-> turn.exc,
                    pr |-> Some(pr), old |-> Stored(shelf, Key(pr.number)),
                    built |-> built]
        /\ UNCHANGED <<email_to_gh_user, vote, last, prev, walk, limiter, record,
                     caller, importer>>

InitImport ==
    /\ email_to_gh_user = FreshDatabase
    /\ vote = Idle
    /\ last = NoCall
    /\ prev = Before(NoCall)
    /\ shelf = EmptyShelf
    /\ pass = NoTurn
    /\ walk = Unused
    /\ limiter = Unused
    /\ record = Unused
    /\ caller = Unused
    /\ importer = Unused

NextImport == \E pr \in PullRequests, built \in BOOLEAN : ImportPull(pr, built)

SpecImport == InitImport /\ [][NextImport]_vars

(***************************************************************************)
(* C11                                                                     *)
(***************************************************************************)
\* The record the last turn found, the one it built and the one it left.
OldChange == pass.old[1]
CurrentChange == new_change_from(pass.pr[1])
NewChange == shelf[Key(pass.pr[1].number)]

\* C11: after update_in_place every field holds the fetched value if that is
\* truthy, otherwise the old value if that is truthy, otherwise the fetched
\* value; and no step makes a truthy field of a stored Change falsy.
C11_FieldMerge ==
    /\ [](pass.outcome = "updating" =>
            \A field \in FieldNames :
                NewChange[field] =
                    IF Truthy(field, CurrentChange[field])
                    THEN CurrentChange[field]
                    ELSE IF Truthy(field, OldChange[field])
                    THEN OldChange[field]
                    ELSE CurrentChange[field])
    /\ [][\A k \in DOMAIN shelf : \A field \in FieldNames :
             Truthy(field, shelf[k][field]) =>
                 k \in DOMAIN shelf' /\ Truthy(field, shelf'[k][field])]_vars

C11_Witness ==
    /\ pass.outcome = "updating"
    /\ OldChange.files # <<>> /\ CurrentChange.files = <<>>
    /\ NewChange.files = OldChange.files
    /\ OldChange.title # CurrentChange.title
    /\ NewChange.title = CurrentChange.title
    /\ NewChange.commit_id = NotMerged

(***************************************************************************)
(* C12                                                                     *)
(***************************************************************************)
\* C12: update_in_place with a pull request whose Change equals the stored
\* one in every field leaves the stored one as it was, and update_in_place
\* with the same pull request a second time changes nothing.
C12_MergeIdempotence ==
    pass.outcome = "updating" =>
        /\ CurrentChange = OldChange => NewChange = OldChange
        /\ update_in_place(NewChange, pass.pr[1]) = NewChange

C12_Witness ==
    /\ pass.outcome = "updating"
    /\ CurrentChange = OldChange
    /\ NewChange = OldChange
    /\ OldChange.comments # <<>>

(***************************************************************************)
(* C19                                                                     *)
(***************************************************************************)
\* C19: a Change the PR import pass stored has the NotMerged commit_id only
\* if its pull request is not merged (merged_at is None).
C19_CommitId ==
    \A k \in DOMAIN shelf :
        shelf[k].commit_id = NotMerged => shelf[k].merged_at = None

(***************************************************************************)
(* C20                                                                     *)
(***************************************************************************)
\* The last turn found a record, and the remote API gave what the turn
\* asked for.
Rechecked == pass.outcome # "none" /\ pass.old # None /\ pass.built

\* updated_at decides when the pull request has one; the Last-Modified
\* header against merged_at and closed_at when it has not.
FreshnessTest ==
    LET pr == pass.pr[1]
    IN  /\ pr.updated_at # None =>
              (pass.outcome = "skipping"
                   <=> OldChange.updated_at = pr.updated_at)
        /\ pr.updated_at = None /\ pr.last_modified # None =>
              (pass.outcome = "skipping"
                   <=> \E t \in {OldChange.merged_at, OldChange.closed_at} :
                           t # None /\ t[1] = pr.last_modified[1].seconds)

Reconciled ==
    /\ pass.outcome = "updating"
    /\ NewChange = update_in_place(OldChange, pass.pr[1])

\* C20, as claimed: the record is up to date exactly when updated_at, or
\* without it the header, says so, and in every other case (also without
\* either timestamp) it is reconciled.
C20_AsClaimed ==
    Rechecked =>
        /\ FreshnessTest
        /\ pass.outcome # "skipping" => Reconciled

\* C20, amended: the same, except that a pull request with neither
\* timestamp makes is_up_to_date raise ValueError: the turn is skipped with
\* a warning and the record left as it was; and a stale record is left as
\* it was when the Change cannot be built.
C20_Freshness ==
    pass.outcome # "none" /\ pass.old # None =>
        LET pr == pass.pr[1]
            neither == pr.updated_at = None /\ pr.last_modified = None
        IN  /\ FreshnessTest
            /\ neither =>
                   /\ pass.outcome = "error" /\ pass.exc = "ValueError"
                   /\ NewChange = OldChange
            /\ ~neither /\ pass.outcome # "skipping" =>
                   IF pass.built THEN Reconciled
                   ELSE pass.outcome = "error" /\ NewChange = OldChange
            /\ pass.outcome = "skipping" => NewChange = OldChange

C20_Witness ==
    /\ pass.outcome = "skipping"
    /\ pass.pr[1].updated_at = None
    /\ OldChange.merged_at = None
    /\ OldChange.closed_at = Some(dt_parse(pass.pr[1].last_modified[1]))

(***************************************************************************)
(* gh_utils.nice                                                           *)
(***************************************************************************)
\* The seconds of a day: timedelta keeps days and the seconds within the
\* day apart.
Day == 86400

\* remaining, limit and the seconds from now to reset of the quota of one
\* domain, as get_rate_limit gives them.
Quotas ==
    {[remaining |-> q[1], limit |-> q[2], reset |-> d] :
        q \in {<<0, 3>>, <<1, 3>>, <<2, 3>>, <<0, 5000>>, <<1, 5000>>,
               <<2, 5000>>, <<51, 5000>>},
        d \in {-1, 0, 2, Day + 2}}

Plenty == [remaining |-> 5000, limit |-> 5000, reset |-> 2]
Spent == [remaining |-> 0, limit |-> 5000, reset |-> 2]

\* The answers of get_rate_limit: the quota of every domain.
RateLimits ==
    {[core |-> q, search |-> r] : q \in Quotas, r \in {Plenty, Spent}}
    \cup {[core |-> q, search |-> r] : q \in {Plenty, Spent}, r \in Quotas}

\* Variant: precise mode goes on while one request remains.
nice_check_LastRequest(precise, rl_domain) ==
    IF precise /\ rl_domain.remaining > 0
    THEN [verdict |-> "return", sleeps |-> 0]
    ELSE IF 4 * rl_domain.remaining > rl_domain.limit
    THEN [verdict |-> "return", sleeps |-> 0]
    ELSE IF rl_domain.remaining > 50 THEN [verdict |-> "return", sleeps |-> 1]
    ELSE IF rl_domain.reset < 0 THEN [verdict |-> "stale", sleeps |-> 1]
    ELSE [verdict |-> "wait", sleeps |-> (rl_domain.reset % Day) + 3]

\* Variant: precise mode has the threshold remaining > 1 and no other.
nice_check_PreciseOnly(precise, rl_domain) ==
    IF precise /\ rl_domain.remaining > 1
    THEN [verdict |-> "return", sleeps |-> 0]
    ELSE IF ~precise /\ 4 * rl_domain.remaining > rl_domain.limit
    THEN [verdict |-> "return", sleeps |-> 0]
    ELSE IF ~precise /\ rl_domain.remaining > 50
    THEN [verdict |-> "return", sleeps |-> 1]
    ELSE IF rl_domain.reset < 0 THEN [verdict |-> "stale", sleeps |-> 1]
    ELSE [verdict |-> "wait", sleeps |-> (rl_domain.reset % Day) + 3]

\* Lines 170-186 on the quota of the domain: whether nice returns, and the
\* seconds it sleeps first; remaining / limit > 0.25 is 4 * remaining > limit
\* (limit is positive), delta.days < 0 is reset before now, and delta.seconds
\* are the seconds within the day.
nice_check(precise, rl_domain) ==
    IF precise /\ rl_domain.remaining > 1
    THEN [verdict |-> "return", sleeps |-> 0]
    ELSE IF 4 * rl_domain.remaining > rl_domain.limit
    THEN [verdict |-> "return", sleeps |-> 0]
    ELSE IF rl_domain.remaining > 50 THEN [verdict |-> "return", sleeps |-> 1]
    ELSE IF rl_domain.reset < 0 THEN [verdict |-> "stale", sleeps |-> 1]
    ELSE [verdict |-> "wait", sleeps |-> (rl_domain.reset % Day) + 3]

(***************************************************************************)
(* The rate limiter on its own.                                            *)
(*   limiter  the call of nice that is running or has returned: its        *)
(*            arguments, the reads of the rate limit it made and how many  *)
(*            failed, the last answer, what nice made of it, the seconds   *)
(*            slept and the progress updates made since that answer, and   *)
(*            the seconds slept in the whole call                          *)
(***************************************************************************)
NoNice ==
    [pc |-> "idle", domain |-> "", precise |-> FALSE, reads |-> 0,
     failed |-> 0, rl |-> None, verdict |-> "", since |-> 0, updates |-> 0,
     slept |-> 0]

\* The call after a read that failed, and after one that was answered.
AfterFailure(call) ==
    [call EXCEPT !.reads = @ + 1, !.failed = @ + 1, !.slept = @ + 1]

AfterAnswer(call, rl) ==
    LET check == nice_check(call.precise, rl[call.domain])
    IN  [call EXCEPT
            !.pc = IF check.verdict = "wait" THEN "read" ELSE "idle",
            !.reads = @ + 1,
            !.rl = Some(rl),
            !.verdict = check.verdict,
            !.since = check.sleeps,
            !.updates = IF check.verdict = "wait" THEN check.sleeps ELSE 0,
            !.slept = @ + check.sleeps]

NiceCall(quota_domain, precise) ==
    /\ limiter.pc = "idle"
    /\ limiter' = [NoNice EXCEPT !.pc = "read", !.domain = quota_domain,
                                 !.precise = precise]
    /\ UNCHANGED <<email_to_gh_user, vote, last, prev, shelf, pass, walk,
                     record, caller, importer>>

\* Lines 158-161: get_rate_limit raises.
NiceReadFails ==
    /\ limiter.pc = "read"
    /\ limiter.reads < MaxReads
    /\ limiter' = AfterFailure(limiter)
    /\ UNCHANGED <<email_to_gh_user, vote, last, prev, shelf, pass, walk,
                     record, caller, importer>>

\* Lines 159-194: get_rate_limit answers; nice returns, or sleeps until the
\* reset and reads again.
NiceRead(rl) ==
    /\ limiter.pc = "read"
    /\ limiter.reads < MaxReads
    /\ limiter' = AfterAnswer(limiter, rl)
        /\ UNCHANGED <<email_to_gh_user, vote, last, prev, shelf, pass, walk,
                     record, caller, importer>>

InitNice ==
    /\ email_to_gh_user = FreshDatabase
    /\ vote = Idle
    /\ last = NoCall
    /\ prev = Before(NoCall)
    /\ shelf = EmptyShelf
    /\ pass = Unused
    /\ walk = Unused
    /\ limiter = NoNice
    /\ record = Unused
    /\ caller = Unused
    /\ importer = Unused

NextNice ==
    \/ \E quota_domain \in {"core", "search"}, precise \in BOOLEAN :
           NiceCall(quota_domain, precise)
    \/ NiceReadFails
    \/ \E rl \in RateLimits : NiceRead(rl)

SpecNice == InitNice /\ [][NextNice]_vars

(***************************************************************************)
(* C16                                                                     *)
(***************************************************************************)
\* nice has returned to its caller; the quota it read last for its domain.
NiceReturned == limiter.pc = "idle" /\ limiter.rl # None
LastQuota == limiter.rl[1][limiter.domain]

\* C16, as claimed: nice in precise mode returns only when the remaining
\* quota it read last for its domain is above 1, or when the reset has
\* passed.
C16_AsClaimed ==
    NiceReturned /\ limiter.precise =>
        LastQuota.remaining > 1 \/ LastQuota.reset < 0

\* C16, amended: nice in precise mode returns only when the remaining quota
\* it read last for its domain is above 1, or above a quarter of the limit
\* (one remaining request of a limit below 4), or when the reset has passed.
C16_Precise ==
    NiceReturned /\ limiter.precise =>
        \/ LastQuota.remaining > 1
        \/ 4 * LastQuota.remaining > LastQuota.limit
        \/ LastQuota.reset < 0 /\ limiter.verdict = "stale"

C16_Witness ==
    /\ NiceReturned /\ limiter.precise
    /\ limiter.domain = "search"
    /\ limiter.reads = 2 /\ limiter.failed = 0
    /\ LastQuota.remaining = 2 /\ LastQuota.limit = 5000
    /\ limiter.rl[1].core.remaining = 0

(***************************************************************************)
(* C17                                                                     *)
(***************************************************************************)
\* What nice makes in the other mode of the quota it read last.
OtherMode == nice_check(~limiter.precise, LastQuota)

\* Default mode returns at once above a quarter of the limit and after one
\* sleep of a second at or below it with more than 50 remaining.
DefaultThresholds ==
    NiceReturned /\ ~limiter.precise =>
        /\ 4 * LastQuota.remaining > LastQuota.limit => limiter.since = 0
        /\ 4 * LastQuota.remaining <= LastQuota.limit
           /\ LastQuota.remaining > 50 => limiter.since = 1

\* C17, as claimed: on a quota on which precise mode does not wait for the
\* reset default mode does not wait either; and the thresholds of default
\* mode.
C17_AsClaimed ==
    /\ limiter.rl # None /\ limiter.precise /\ limiter.verdict # "wait" =>
           OtherMode.verdict # "wait"
    /\ DefaultThresholds

\* C17, amended: on a quota on which default mode does not wait for the
\* reset precise mode does not wait either (precise mode is the one that
\* goes further); and the thresholds of default mode.
C17_DefaultStricter ==
    /\ limiter.rl # None /\ ~limiter.precise /\ limiter.verdict # "wait" =>
           OtherMode.verdict # "wait"
    /\ DefaultThresholds

C17_Witness ==
    /\ NiceReturned /\ ~limiter.precise
    /\ LastQuota.remaining = 51 /\ LastQuota.limit = 5000
    /\ limiter.since = 1
    /\ OtherMode = [verdict |-> "return", sleeps |-> 0]

(***************************************************************************)
(* import_git_repo.py: the commit walk.                                    *)
(*                                                                         *)
(* A commit is its sha1, the email of its author and the emails of its     *)
(* Co-authored-by and Authored-by lines; the i-th commit of the list has   *)
(* the sha1 Sha(i).                                                        *)
(***************************************************************************)
Sha(i) == <<"c", i>>

OtherOrdinary == <<"b", "@", "x">>

\* The noreply address with nothing before the domain.
BareNoreply == domain

WalkEmails == {Ordinary, OtherOrdinary, NumberedNoreply, BareNoreply, NoAt}

\* The commits the list is made of.
Commits ==
    {[author |-> author, co_authors |-> co_authors] :
        author \in WalkEmails, co_authors \in {<<>>, <<Ordinary>>}}

\* The Change of the pull request merged as the i-th commit.
MergedChange(i) ==
    [new_change_from([Blanked(PullA, {"people"}) EXCEPT !.number = i])
        EXCEPT !.commit_id = Sha(i)]

\* The Change of a pull request that is open, as import_gh_pr stores it.
OpenChange(i) ==
    [MergedChange(i) EXCEPT !.commit_id = NotMerged, !.merged_at = None,
                            !.closed_at = None]

\* The stores the walk starts from: the pull requests of none of the
\* commits, of the first, of all; of the first with an open pull request;
\* and of the first with that of the second under the key of another.
MergedStore(S) == [k \in {Key(i) : i \in S} |-> MergedChange(k[2])]

WithOpen ==
    Put(MergedStore({1}), Key(MaxCommits + 1), OpenChange(MaxCommits + 1))

Misfiled == Put(MergedStore({1}), Key(MaxCommits + 1), MergedChange(2))

WalkStores ==
    {MergedStore({}), MergedStore({1}), MergedStore(1..MaxCommits), WithOpen,
     Misfiled}

\* The caches the walk starts from: a new one, and one a run before left.
WalkCaches ==
    {FreshDatabase, find_user(FreshDatabase, OtherOrdinary, OneLogin).db}

\* What search_users gives for each email, the same whenever it is asked.
SearchAnswers ==
    {[email \in WalkEmails |->
         IF email = Ordinary THEN found
         ELSE IF email = OtherOrdinary THEN OneLogin ELSE NoLogins] :
        found \in {NoSearch, NoLogins, OneLogin,
                   [failed |-> FALSE, logins |-> <<(<<"a">>), (<<"b">>)>>]}}

\* What get_pull gives: GithubException or the pull request of this author.
PullOutcomes == {None, Some(<<"a">>)}

\* Variant: the Changes that are not merged are in the index too.
build_commit_id_to_pr_index_KeepsSentinels(store) ==
    [c \in {store[k].commit_id : k \in DOMAIN store} |->
        store[CHOOSE k \in DOMAIN store : store[k].commit_id = c].pr_id]

build_commit_id_to_pr_index(store) ==
    LET merged == {k \in DOMAIN store :
                      /\ store[k].commit_id # NotMerged
                      /\ store[k].pr_id # UnknownPR}
    IN  [c \in {store[k].commit_id : k \in merged} |->
            store[CHOOSE k \in merged : store[k].commit_id = c].pr_id]

\* Lines 83-92 of gh_utils: the loop over prs, in the order of the set.
RECURSIVE TallyPulls(_, _, _)
TallyPulls(todo, pulls, tally) ==
    IF todo = {} THEN tally
    ELSE LET pr_id == CHOOSE p \in todo : \A q \in todo : p <= q
             asked == tally.trace \o <<"nice(core,precise)", "get_pull">>
             pr == pulls[pr_id]
         IN  IF pr = None
             THEN TallyPulls(todo \ {pr_id}, pulls,
                             [tally EXCEPT !.trace = asked])
             ELSE LET pr_authors == CountAuthor(tally.pr_authors, pr[1])
                      order == IF Contains(tally.order, pr[1]) THEN tally.order
                               ELSE Append(tally.order, pr[1])
                      counted == [pr_authors |-> pr_authors, order |-> order,
                                  trace |-> asked]
                  IN  IF ReachedThreshold(pr_authors, order) THEN counted
                      ELSE TallyPulls(todo \ {pr_id}, pulls, counted)

\* most_common_user_in_prs as one call, get_pull answering by pulls.
most_common_user_in_prs(cache, email, prs, pulls) ==
    LET cached == _get_cached_gh_user_for_email(cache, email)
        result == IF cached.exc = "LookupError" THEN None ELSE cached.val
        tally == TallyPulls(prs, pulls,
                            [pr_authors |-> NoAuthors, order |-> <<>>,
                             trace |-> <<"select">>])
    IN  IF result # None
        THEN Done(cache, Return(Some(result[1])), <<"select">>)
        ELSE StoreMostCommon(cache, email, tally.pr_authors, tally.order,
                             tally.trace)

(***************************************************************************)
(* The walk and its consumer, update_db, as one machine m: the cache, the  *)
(* store and the variables of the two functions.                           *)
(***************************************************************************)
\* Variant: the record is written whether or not the user is new, and a
\* record is made for a PR that has none.
Consume_AlwaysWrites(m, triple) ==
    LET pr_id == triple.pr_id
        pk == Key(pr_id)
        seen == [m EXCEPT !.walk.seen_pr_ids = @ \cup {pr_id},
                          !.walk.triples = Append(@, triple)]
    IN  IF pr_id = UnknownPR
        THEN [m EXCEPT !.walk.triples = Append(@, triple)]
        ELSE IF pk \notin DOMAIN m.shelf
        THEN [seen EXCEPT !.walk.unknown_prs = Append(@, pr_id)]
        ELSE [seen EXCEPT !.shelf[pk].contributors = @ \cup {triple.gh_user},
                          !.walk.writes = @ + 1]

\* Lines 68-84 of update_db: what the consumer does with one triple.
Consume(m, triple) ==
    LET pr_id == triple.pr_id
        pk == Key(pr_id)
        seen == [m EXCEPT !.walk.seen_pr_ids = @ \cup {pr_id},
                          !.walk.triples = Append(@, triple)]
    IN  IF pr_id = UnknownPR
        THEN [m EXCEPT !.walk.triples = Append(@, triple)]
        ELSE IF pk \notin DOMAIN m.shelf
        THEN IF pr_id \notin m.walk.seen_pr_ids
             THEN [seen EXCEPT !.walk.unknown_prs = Append(@, pr_id)]
             ELSE seen
        ELSE IF triple.gh_user \notin m.shelf[pk].contributors
        THEN [seen EXCEPT !.shelf[pk].contributors = @ \cup {triple.gh_user},
                          !.walk.writes = @ + 1]
        ELSE seen

\* The find_user call of lines 113 and 129 on the machine.
Found(m, email) ==
    LET res == find_user(m.cache, email, m.walk.search_answers[email])
    IN  [res |-> res,
         m |-> [m EXCEPT !.cache = res.db,
                         !.walk.searches[email] =
                             @ + Count(res.trace, "search_users")]]

\* Lines 119-123 and 137-139: the warning, once for an email.
Warned(m, email) ==
    [m EXCEPT !.walk.warnings =
                  IF m.walk.multiple_accounts[email] = 0
                  THEN Append(@, email) ELSE @,
              !.walk.multiple_accounts[email] = @ + 1]

\* Lines 116-117 and 135.
Unknown(m, email) ==
    [m EXCEPT !.walk.unknown_emails =
                  IF Contains(@, email) THEN @ ELSE Append(@, email),
              !.walk.unknown_count[email] = @ + 1]

\* Variant: the email of a co-author that is not found is kept with the PR
\* of its commit.
Resolve_KeepsCoAuthors(m, i, email, primary) ==
    LET commit_sha1 == Sha(i)
        pr_id == IF commit_sha1 \in DOMAIN m.walk.sha1_to_pr
                 THEN m.walk.sha1_to_pr[commit_sha1] ELSE UnknownPR
        found == Found(m, email)
        res == found.res
        noted == [found.m EXCEPT !.walk.not_found[email] =
                                     @ \cup {[pr_id |-> pr_id,
                                              primary |-> primary]}]
    IN  IF res.exc = ""
        THEN Consume(found.m, [commit_sha1 |-> commit_sha1, pr_id |-> pr_id,
                               gh_user |-> res.val[1]])
        ELSE IF res.exc = "LookupError"
        THEN IF pr_id # UnknownPR
             THEN Unknown([noted EXCEPT
                              !.walk.unknown_email_prs[email] =
                                  Put(@, pr_id, commit_sha1)], email)
             ELSE Unknown(noted, email)
        ELSE IF res.exc = "ValueError" THEN Warned(found.m, email)
        ELSE [found.m EXCEPT !.walk.exc = res.exc]

\* Variant: the warning for a co-author is given whenever it occurs.
Resolve_WarnsCoAuthors(m, i, email, primary) ==
    LET commit_sha1 == Sha(i)
        pr_id == IF commit_sha1 \in DOMAIN m.walk.sha1_to_pr
                 THEN m.walk.sha1_to_pr[commit_sha1] ELSE UnknownPR
        found == Found(m, email)
        res == found.res
        noted == [found.m EXCEPT !.walk.not_found[email] =
                                     @ \cup {[pr_id |-> pr_id,
                                              primary |-> primary]}]
    IN  IF res.exc = ""
        THEN Consume(found.m, [commit_sha1 |-> commit_sha1, pr_id |-> pr_id,
                               gh_user |-> res.val[1]])
        ELSE IF res.exc = "LookupError"
        THEN IF primary /\ pr_id # UnknownPR
             THEN Unknown([noted EXCEPT
                              !.walk.unknown_email_prs[email] =
                                  Put(@, pr_id, commit_sha1)], email)
             ELSE Unknown(noted, email)
        ELSE IF res.exc = "ValueError"
        THEN IF primary THEN Warned(found.m, email)
             ELSE [found.m EXCEPT
                      !.walk.warnings = Append(@, email),
                      !.walk.multiple_accounts[email] = @ + 1]
        ELSE [found.m EXCEPT !.walk.exc = res.exc]

\* Variant: nothing is yielded for a co-author.
Resolve_DropsCoAuthors(m, i, email, primary) ==
    LET commit_sha1 == Sha(i)
        pr_id == IF commit_sha1 \in DOMAIN m.walk.sha1_to_pr
                 THEN m.walk.sha1_to_pr[commit_sha1] ELSE UnknownPR
        found == Found(m, email)
        res == found.res
        noted == [found.m EXCEPT !.walk.not_found[email] =
                                     @ \cup {[pr_id |-> pr_id,
                                              primary |-> primary]}]
    IN  IF res.exc = ""
        THEN IF primary
             THEN Consume(found.m, [commit_sha1 |-> commit_sha1,
                                    pr_id |-> pr_id, gh_user |-> res.val[1]])
             ELSE found.m
        ELSE IF res.exc = "LookupError"
        THEN IF primary /\ pr_id # UnknownPR
             THEN Unknown([noted EXCEPT
                              !.walk.unknown_email_prs[email] =
                                  Put(@, pr_id, commit_sha1)], email)
             ELSE Unknown(noted, email)
        ELSE IF res.exc = "ValueError" THEN Warned(found.m, email)
        ELSE [found.m EXCEPT !.walk.exc = res.exc]

\* Lines 111-125 (primary) and 128-141 (a co-author) for the i-th commit:
\* find_user on the email and what becomes of its answer; a triple that is
\* yielded is consumed before the walk goes on.  not_found notes the PR ids
\* of the commits on which find_user raised LookupError for the email.
Resolve(m, i, email, primary) ==
    LET commit_sha1 == Sha(i)
        pr_id == IF commit_sha1 \in DOMAIN m.walk.sha1_to_pr
                 THEN m.walk.sha1_to_pr[commit_sha1] ELSE UnknownPR
        found == Found(m, email)
        res == found.res
        noted == [found.m EXCEPT !.walk.not_found[email] =
                                     @ \cup {[pr_id |-> pr_id,
                                              primary |-> primary]}]
    IN  IF res.exc = ""
        THEN Consume(found.m, [commit_sha1 |-> commit_sha1, pr_id |-> pr_id,
                               gh_user |-> res.val[1]])
        ELSE IF res.exc = "LookupError"
        THEN IF primary /\ pr_id # UnknownPR
             THEN Unknown([noted EXCEPT
                              !.walk.unknown_email_prs[email] =
                                  Put(@, pr_id, commit_sha1)], email)
             ELSE Unknown(noted, email)
        ELSE IF res.exc = "ValueError" THEN Warned(found.m, email)
        ELSE [found.m EXCEPT !.walk.exc = res.exc]

\* Lines 127-141: the co-authors of the i-th commit, until an exception.
RECURSIVE ResolveCoAuthors(_, _, _)
ResolveCoAuthors(m, i, emails) ==
    IF emails = <<>> \/ m.walk.exc # "" THEN m
    ELSE ResolveCoAuthors(Resolve(m, i, Head(emails), FALSE), i, Tail(emails))

\* Lines 106-143: one turn of the loop over the commits.
WalkTurn(m, i, commit) ==
    ResolveCoAuthors(Resolve(m, i, commit.author, TRUE), i, commit.co_authors)

\* Counter.most_common(): by count, the largest first, emails of the same
\* count in the order they came into the counter.
RECURSIVE MostCommonOrder(_, _)
MostCommonOrder(emails, count) ==
    IF emails = <<>> THEN <<>>
    ELSE LET i == CHOOSE k \in 1..Len(emails) :
                      /\ \A j \in 1..Len(emails) :
                             count[emails[j]] <= count[emails[k]]
                      /\ \A j \in 1..(k - 1) :
                             count[emails[j]] < count[emails[k]]
         IN  <<emails[i]>>
                 \o MostCommonOrder(SelectSeq(emails, LAMBDA e : e # emails[i]),
                                    count)

\* Lines 192-193: the triples of the PRs of an email, each consumed in turn
\* (the PRs come in the order of the commits, which is that of their ids).
RECURSIVE YieldAll(_, _, _)
YieldAll(m, prs, gh_user) ==
    IF DOMAIN prs = {} THEN m
    ELSE LET pr_id == CHOOSE p \in DOMAIN prs : \A q \in DOMAIN prs : p <= q
         IN  YieldAll(Consume(m, [commit_sha1 |-> prs[pr_id], pr_id |-> pr_id,
                                  gh_user |-> gh_user]),
                      [q \in DOMAIN prs \ {pr_id} |-> prs[q]], gh_user)

\* Lines 169-199: one turn of the loop over the emails that were not found.
FallbackTurn(m, email, pulls) ==
    LET prs == m.walk.unknown_email_prs[email]
        res == most_common_user_in_prs(m.cache, email, DOMAIN prs, pulls)
        asked == [m EXCEPT
                     !.cache = res.db,
                     !.walk.submitted[email] = Some(DOMAIN prs),
                     !.walk.pull_answers =
                         [pr \in DOMAIN @ |->
                             IF pr \in DOMAIN prs
                                /\ Count(res.trace, "get_pull") > 0
                             THEN <<pulls[pr]>> ELSE @[pr]]]
    IN  IF DOMAIN prs = {}
        THEN [m EXCEPT !.walk.unresolved = @ \cup {email}]
        ELSE IF res.exc = "" THEN YieldAll(asked, prs, res.val[1])
        ELSE IF res.exc = "LookupError"
        THEN [asked EXCEPT !.walk.fallback_failed = Append(@, email)]
        ELSE [asked EXCEPT !.walk.exc = res.exc]

(***************************************************************************)
(* The commit walk on its own, run once and then once more on the same     *)
(* commits with the same answers of the remote API.                        *)
(*   walk  the variables of gen_github_users_from_commits,                 *)
(*         resolve_unknown_emails_from_prs and update_db, and with them:   *)
(*         the run, the commits of the list, how many of them are done,    *)
(*         the answers of the remote API, the store after the first run,   *)
(*         the cache at the start, the triples yielded, the searches made  *)
(*         for each email, the writes to the store, the emails submitted   *)
(*         to the vote with their PRs, and the exception that ended it     *)
(***************************************************************************)
NewWalk(run, commits, search_answers, pull_answers, first, cache0) ==
    [pc |-> "start", run |-> run, commits |-> commits, at |-> 0,
     sha1_to_pr |-> <<>>,
     unknown_emails |-> <<>>,
     unknown_count |-> [e \in WalkEmails |-> 0],
     unknown_email_prs |-> [e \in WalkEmails |-> <<>>],
     multiple_accounts |-> [e \in WalkEmails |-> 0],
     warnings |-> <<>>,
     seen_pr_ids |-> {},
     unknown_prs |-> <<>>,
     triples |-> <<>>,
     searches |-> [e \in WalkEmails |-> 0],
     writes |-> 0,
     not_found |-> [e \in WalkEmails |-> {}],
     todo |-> <<>>,
     submitted |-> [e \in WalkEmails |-> None],
     unresolved |-> {},
     fallback_failed |-> <<>>,
     search_answers |-> search_answers,
     pull_answers |-> pull_answers,
     first |-> first,
     cache0 |-> cache0,
     exc |-> ""]

Machine == [cache |-> email_to_gh_user, shelf |-> shelf, walk |-> walk]

\* The machine after a step that may have raised.
Becomes(m, pc) ==
    /\ email_to_gh_user' = m.cache
    /\ shelf' = m.shelf
    /\ walk' = [m.walk EXCEPT !.pc = IF m.walk.exc # "" THEN "crashed" ELSE pc]
    /\ UNCHANGED <<vote, last, prev, pass, limiter, record, caller,
                   importer>>

\* Line 90: the index is built when the walk starts.
WalkStart ==
    /\ walk.pc = "start"
    /\ Becomes([Machine EXCEPT
                   !.walk.sha1_to_pr = build_commit_id_to_pr_index(shelf)],
               "commits")

\* The next commit of the list: any in the first run, the same again in the
\* second.
WalkCommit(commit) ==
    LET i == walk.at + 1
    IN  /\ walk.pc = "commits"
        /\ IF walk.run = 1 THEN i <= MaxCommits
           ELSE i <= Len(walk.commits) /\ commit = walk.commits[i]
        /\ Becomes(WalkTurn([Machine EXCEPT
                                !.walk.at = i,
                                !.walk.commits = IF walk.run = 1
                                                 THEN Append(@, commit) ELSE @],
                            i, commit),
                   "commits")

\* Lines 145-169: the list is at its end.
WalkEnd ==
    LET todo == MostCommonOrder(walk.unknown_emails, walk.unknown_count)
    IN  /\ walk.pc = "commits"
        /\ walk.run = 1 \/ walk.at = Len(walk.commits)
        /\ Becomes([Machine EXCEPT !.walk.todo = todo],
                   IF todo = <<>> THEN "done" ELSE "fallback")

\* What get_pull may give for the PRs of the email whose turn it is.
FallbackPulls ==
    IF walk.pc = "fallback"
    THEN [DOMAIN walk.unknown_email_prs[Head(walk.todo)] -> PullOutcomes]
    ELSE {}

WalkFallback(pulls) ==
    LET email == Head(walk.todo)
    IN  /\ walk.pc = "fallback"
        /\ \A pr \in DOMAIN pulls :
               walk.pull_answers[pr] # <<>> =>
                   pulls[pr] = walk.pull_answers[pr][1]
        /\ Becomes(FallbackTurn([Machine EXCEPT !.walk.todo = Tail(@)],
                                email, pulls),
                   IF Tail(walk.todo) = <<>> THEN "done" ELSE "fallback")

\* The second run, from the store and the cache the first left.
WalkAgain ==
    /\ walk.pc = "done"
    /\ walk.run = 1
    /\ Becomes([Machine EXCEPT
                   !.walk = NewWalk(2, walk.commits, walk.search_answers,
                                    walk.pull_answers, Some(shelf),
                                    email_to_gh_user)],
               "start")

InitWalk ==
    /\ email_to_gh_user \in WalkCaches
    /\ vote = Idle
    /\ last = NoCall
    /\ prev = Before(NoCall)
    /\ shelf \in WalkStores
    /\ pass = Unused
    /\ \E search_answers \in SearchAnswers :
           walk = NewWalk(1, <<>>, search_answers,
                          [pr \in 1..MaxCommits |-> <<>>], None,
                          email_to_gh_user)
    /\ limiter = Unused
    /\ record = Unused
    /\ caller = Unused
    /\ importer = Unused

NextWalk ==
    \/ WalkStart
    \/ \E commit \in Commits : WalkCommit(commit)
    \/ WalkEnd
    \/ \E pulls \in FallbackPulls : WalkFallback(pulls)
    \/ WalkAgain

SpecWalk == InitWalk /\ [][NextWalk]_vars

(***************************************************************************)
(* C13                                                                     *)
(***************************************************************************)
\* C13: the second run of the walk over the same commits, with the same
\* answers of the remote API and from the store and the cache the first run
\* left, leaves every record of the store as the first run left it.
C13_RerunIdempotence == walk.run = 2 => shelf = walk.first[1]

(***************************************************************************)
(* C14                                                                     *)
(***************************************************************************)
\* The known PR ids of the commits on which find_user raised LookupError for
\* the email: as author or co-author, and as author.
FailedOn(email) ==
    {x.pr_id : x \in {y \in walk.not_found[email] : y.pr_id # UnknownPR}}

FailedAsAuthorOn(email) ==
    {x.pr_id : x \in {y \in walk.not_found[email] :
                         y.pr_id # UnknownPR /\ y.primary}}

\* C14, as claimed: when the walk is over, every email that was not found
\* on a commit with a known PR id, as author or as co-author, has been
\* submitted to most_common_user_in_prs with those PR ids, and an email is
\* reported without a vote only if none of its commits has a known PR id.
C14_AsClaimed ==
    walk.pc = "done" =>
        \A email \in WalkEmails :
            /\ FailedOn(email) # {} =>
                   walk.submitted[email] = Some(FailedOn(email))
            /\ email \in walk.unresolved => FailedOn(email) = {}

\* C14, amended: the same for the commits of which the email is the author:
\* the commits on which it is a co-author give no candidate, and an email is
\* reported without a vote exactly when it was not found and none of the
\* commits it is the author of has a known PR id.
C14_DeferredFallback ==
    walk.pc = "done" =>
        \A email \in WalkEmails :
            /\ FailedAsAuthorOn(email) # {} =>
                   walk.submitted[email] = Some(FailedAsAuthorOn(email))
            /\ email \in walk.unresolved
                   <=> /\ walk.not_found[email] # {}
                       /\ FailedAsAuthorOn(email) = {}

C14_Witness ==
    /\ walk.pc = "done" /\ walk.run = 1
    /\ FailedOn(Ordinary) = {1, 2}
    /\ FailedAsAuthorOn(Ordinary) = {1}
    /\ walk.submitted[Ordinary] = Some({1})
    /\ walk.unresolved = {}

(***************************************************************************)
(* C15                                                                     *)
(***************************************************************************)
\* The emails of the commits walked, one for each time they occur, with the
\* number of the commit.
RECURSIVE Occurrences(_, _)
Occurrences(commits, n) ==
    IF n = 0 THEN <<>>
    ELSE Occurrences(commits, n - 1)
             \o <<[i |-> n, email |-> commits[n].author]>>
             \o [k \in 1..Len(commits[n].co_authors) |->
                    [i |-> n, email |-> commits[n].co_authors[k]]]

Walked == Occurrences(walk.commits, walk.at)

\* The email is a noreply address, or has a username in the cache the walk
\* started from, or has no row there and one account in a search.
Resolves(email) ==
    \/ NoreplyNames(email) # {}
    \/ /\ ReachesCache(email)
       /\ \/ Entry(walk.cache0, email) = "user"
          \/ /\ Entry(walk.cache0, email) = "absent"
             /\ ~walk.search_answers[email].failed
             /\ Len(walk.search_answers[email].logins) = 1

\* C15: when every email of the commits resolves by its form, by the cache
\* or by a search with one account, the walk yields one triple for every
\* occurrence of an email, with the commit and its PR id or UnknownPR, and
\* searches once for every email that occurs, is not a noreply address and
\* has no row in the cache at the start.
C15_EndToEnd ==
    /\ walk.pc = "done"
    /\ \A k \in 1..Len(Walked) : Resolves(Walked[k].email)
    => /\ Len(walk.triples) = Len(Walked)
       /\ \A k \in 1..Len(Walked) :
              /\ walk.triples[k].commit_sha1 = Sha(Walked[k].i)
              /\ walk.triples[k].pr_id =
                     IF \E key \in DOMAIN shelf :
                            shelf[key].commit_id = Sha(Walked[k].i)
                     THEN Walked[k].i ELSE UnknownPR
       /\ \A email \in WalkEmails :
              walk.searches[email] =
                  IF /\ \E k \in 1..Len(Walked) : Walked[k].email = email
                     /\ NoreplyNames(email) = {}
                     /\ Entry(walk.cache0, email) = "absent"
                  THEN 1 ELSE 0

C15_Witness ==
    /\ walk.pc = "done" /\ walk.run = 1
    /\ walk.commits =
           <<[author |-> NumberedNoreply, co_authors |-> <<Ordinary>>],
             [author |-> OtherOrdinary, co_authors |-> <<>>]>>
    /\ Entry(walk.cache0, OtherOrdinary) = "user"
    /\ Len(walk.triples) = 3
    /\ walk.searches[Ordinary] = 1 /\ walk.searches[OtherOrdinary] = 0

(***************************************************************************)
(* C18                                                                     *)
(***************************************************************************)
\* C18: in one walk an email for which find_user raised ValueError because
\* of several accounts has one warning, however often it occurred and
\* whether as author or as co-author.
C18_WarnedOnce ==
    \A email \in WalkEmails :
        ReachesCache(email) /\ walk.multiple_accounts[email] > 0 =>
            Count(walk.warnings, email) = 1

C18_Witness ==
    /\ walk.multiple_accounts[Ordinary] = 3
    /\ walk.commits[1].author = Ordinary
    /\ walk.commits[1].co_authors = <<Ordinary>>
    /\ walk.warnings = <<Ordinary>>

(***************************************************************************)
(* models.Change.state                                                     *)
(***************************************************************************)
\* Variant: a Change with a commit id is merged.
state_ByCommit(self) ==
    IF self.merged_at # None \/ self.commit_id # NotMerged THEN "merged"
    ELSE IF self.closed_at # None THEN "closed"
    ELSE IF self.opened_at # None THEN "open"
    ELSE "closed"

\* The property state of a Change.
state(self) ==
    IF self.merged_at # None THEN "merged"
    ELSE IF self.closed_at # None THEN "closed"
    ELSE IF self.opened_at # None THEN "open"
    ELSE "closed"

\* The fields of a Change that are not opened_at, merged_at or closed_at and
\* that the state could read, with values of each.
Attributes ==
    [updated_at |-> {None, Some(2), Some(3)},
     commit_id |-> {NotMerged, Sha(1)},
     pr_id |-> {UnknownPR, 1},
     labels |-> {{}, {<<"l">>}}]

\* Changes with every combination of the timestamps.
Changes ==
    {[MergedChange(1) EXCEPT !.opened_at = opened_at,
                             !.merged_at = merged_at,
                             !.closed_at = closed_at,
                             !.updated_at = updated_at,
                             !.commit_id = commit_id,
                             !.pr_id = pr_id] :
        opened_at \in {None, Some(1)},
        merged_at \in {None, Some(2)},
        closed_at \in {None, Some(2), Some(3)},
        updated_at \in Attributes.updated_at,
        commit_id \in Attributes.commit_id,
        pr_id \in Attributes.pr_id}

(***************************************************************************)
(* A Change on its own.                                                    *)
(*   record  the Change, the state read from it last, and how often it     *)
(*           was read                                                      *)
(***************************************************************************)
\* change.state is read.
ReadState ==
    /\ record # Unused
    /\ record.reads < MaxReads
    /\ record' = [record EXCEPT !.state = Some(state(record.change)),
                                !.reads = @ + 1]
    /\ UNCHANGED <<email_to_gh_user, vote, last, prev, shelf, pass, walk,
                   limiter, caller, importer>>

\* A field of the dataclass is assigned.
SetAttribute(name, value) ==
    /\ record # Unused
    /\ record.change[name] # value
    /\ record' = [record EXCEPT !.change[name] = value]
    /\ UNCHANGED <<email_to_gh_user, vote, last, prev, shelf, pass, walk,
                   limiter, caller, importer>>

InitState ==
    /\ email_to_gh_user = FreshDatabase
    /\ vote = Idle
    /\ last = NoCall
    /\ prev = Before(NoCall)
    /\ shelf = EmptyShelf
    /\ pass = Unused
    /\ walk = Unused
    /\ limiter = Unused
    /\ caller = Unused
    /\ importer = Unused
    /\ record \in {[change |-> change_, state |-> None, reads |-> 0] :
                      change_ \in Changes}

NextState ==
    \/ ReadState
    \/ \E name \in DOMAIN Attributes :
           \E value \in Attributes[name] : SetAttribute(name, value)

SpecState == InitState /\ [][NextState]_vars

(***************************************************************************)
(* C21                                                                     *)
(***************************************************************************)
\* The state the claim gives for the three timestamps.
StateOf(opened_at, merged_at, closed_at) ==
    CASE merged_at # None -> "merged"
      [] merged_at = None /\ closed_at # None -> "closed"
      [] merged_at = None /\ closed_at = None /\ opened_at # None -> "open"
      [] OTHER -> "closed"

\* C21: the state read from a Change is "merged" if merged_at is set,
\* otherwise "closed" if closed_at is set, otherwise "open" if opened_at is
\* set, otherwise "closed"; and an assignment to updated_at, commit_id,
\* pr_id or labels leaves the state read from it as it was.
C21_StateOfTimestamps ==
    /\ [](record.state # None =>
            record.state[1] = StateOf(record.change.opened_at,
                                      record.change.merged_at,
                                      record.change.closed_at))
    /\ [][record.state # None /\ record'.state # None =>
             record'.state = record.state]_vars

C21_Witness ==
    /\ record.reads = 2
    /\ record.state = Some("open")
    /\ record.change.commit_id # NotMerged
    /\ record.change.updated_at # None
    /\ record.change.labels = {}

(***************************************************************************)
(* The remote calls of find_user and most_common_user_in_prs between the   *)
(* calls of nice.                                                          *)
(*   caller   the function that is running: which one, the results of the  *)
(*            search or the PRs still to come, the remote call that comes  *)
(*            when nice returns, and the remote calls made, each with the  *)
(*            call of nice before it                                       *)
(***************************************************************************)
\* Variant: the results are paged through with nice in default mode.
nice_before_DefaultPaging(remote) ==
    IF remote = "search_users" THEN [domain |-> "search", precise |-> TRUE]
    ELSE [domain |-> "core", precise |-> FALSE]

\* Variant: the search is made after nice on the core domain.
nice_before_CoreOnly(remote) == [domain |-> "core", precise |-> TRUE]

\* The arguments of the call of nice that stands before the remote call:
\* line 37 before search_users, line 40 before the next step of the
\* iteration over its results, line 84 before get_pull.
nice_before(remote) ==
    IF remote = "search_users" THEN [domain |-> "search", precise |-> TRUE]
    ELSE [domain |-> "core", precise |-> TRUE]

NoCaller == [pc |-> "idle", op |-> "", todo |-> 0, remote |-> "", log |-> <<>>]

\* nice is called before the remote call.
Throttle(c, remote) ==
    /\ caller' = [c EXCEPT !.pc = "nice", !.remote = remote]
    /\ limiter' = [NoNice EXCEPT !.pc = "read",
                                 !.domain = nice_before(remote).domain,
                                 !.precise = nice_before(remote).precise]

\* find_user gets to line 37; the search will give n results.
CallerFindUser(n) ==
    /\ caller.pc = "idle"
    /\ Throttle([NoCaller EXCEPT !.op = "find_user", !.todo = n],
                "search_users")
    /\ UNCHANGED <<email_to_gh_user, vote, last, prev, shelf, pass, walk,
                   record, importer>>

\* most_common_user_in_prs gets to line 83 with n PRs.
CallerMostCommon(n) ==
    /\ caller.pc = "idle"
    /\ IF n = 0
       THEN /\ caller' = [NoCaller EXCEPT !.op = "most_common_user_in_prs"]
            /\ limiter' = NoNice
       ELSE Throttle([NoCaller EXCEPT !.op = "most_common_user_in_prs",
                                      !.todo = n], "get_pull")
    /\ UNCHANGED <<email_to_gh_user, vote, last, prev, shelf, pass, walk,
                   record, importer>>

\* nice has returned: the remote call is made, and nice is called before
\* the next one if there is one.
CallerRemote ==
    LET made == [caller EXCEPT
                    !.log = Append(@, [remote |-> caller.remote,
                                       domain |-> limiter.domain,
                                       precise |-> limiter.precise,
                                       returned |-> limiter.pc = "idle"]),
                    !.todo = IF caller.remote = "search_users" THEN @
                             ELSE @ - 1]
    IN  /\ caller.pc = "nice"
        /\ limiter.pc = "idle"
        /\ IF made.todo = 0
           THEN /\ caller' = [made EXCEPT !.pc = "idle", !.remote = ""]
                /\ UNCHANGED limiter
           ELSE Throttle(made, IF caller.op = "find_user" THEN "next"
                               ELSE "get_pull")
        /\ UNCHANGED <<email_to_gh_user, vote, last, prev, shelf, pass, walk,
                       record, importer>>

InitThrottle ==
    /\ email_to_gh_user = FreshDatabase
    /\ vote = Idle
    /\ last = NoCall
    /\ prev = Before(NoCall)
    /\ shelf = EmptyShelf
    /\ pass = Unused
    /\ walk = Unused
    /\ limiter = NoNice
    /\ record = Unused
    /\ caller = NoCaller
    /\ importer = Unused

NextThrottle ==
    \/ \E n \in 0..MaxResults : CallerFindUser(n)
    \/ \E n \in 0..MaxPRs : CallerMostCommon(n)
    \/ NiceReadFails
    \/ \E rl \in RateLimits : NiceRead(rl)
    \/ CallerRemote

SpecThrottle == InitThrottle /\ [][NextThrottle]_vars

(***************************************************************************)
(* C22                                                                     *)
(***************************************************************************)
\* A remote call is made in the step.
RemoteCall == Len(caller'.log) > Len(caller.log)

\* Every remote call is made when nice has returned.
NeverWhileBlocked ==
    /\ [][RemoteCall => limiter.pc = "idle" /\ limiter.rl # None]_vars
    /\ [](\A k \in 1..Len(caller.log) : caller.log[k].returned)

\* C22, as claimed: every search_users follows a call of nice on the search
\* domain in precise mode that has returned, every step through the results
\* follows a call of nice on the core domain in default mode, and no remote
\* call is made while nice has not returned.
C22_AsClaimed ==
    /\ [](\A k \in 1..Len(caller.log) :
            LET made == caller.log[k]
            IN  /\ made.remote = "search_users" =>
                       made.domain = "search" /\ made.precise
                /\ made.remote = "next" =>
                       made.domain = "core" /\ ~made.precise)
    /\ NeverWhileBlocked

\* C22, amended: the same with nice on the core domain in precise mode for
\* every step through the results.
C22_Throttle ==
    /\ [](\A k \in 1..Len(caller.log) :
            LET made == caller.log[k]
            IN  /\ made.remote = "search_users" =>
                       made.domain = "search" /\ made.precise
                /\ made.remote = "next" =>
                       made.domain = "core" /\ made.precise)
    /\ NeverWhileBlocked

C22_Witness ==
    /\ caller.pc = "idle" /\ caller.op = "find_user"
    /\ Len(caller.log) = 3
    /\ caller.log[1].remote = "search_users"
    /\ caller.log[3].remote = "next"
    /\ limiter.reads = 2 /\ limiter.slept > 0

(***************************************************************************)
(* C23                                                                     *)
(***************************************************************************)
\* The quota nice read last is below every threshold on which it returns.
BelowThresholds ==
    /\ limiter.rl # None
    /\ ~(limiter.precise /\ LastQuota.remaining > 1)
    /\ 4 * LastQuota.remaining <= LastQuota.limit
    /\ LastQuota.remaining <= 50

\* C23: when the quota nice read is below every threshold and the reset is
\* in the past, nice returns without a turn of the loop that waits for the
\* reset; when the reset is in the future nice does not return on that
\* answer, has slept second by second until the reset, with one progress
\* update for every second, and reads the quota again.
C23_StaleReset ==
    /\ BelowThresholds /\ LastQuota.reset < 0 =>
           /\ limiter.pc = "idle"
           /\ limiter.updates = 0
    /\ BelowThresholds /\ LastQuota.reset > 0 =>
           /\ limiter.pc = "read"
           /\ limiter.since >= LastQuota.reset
           /\ limiter.updates = limiter.since

(***************************************************************************)
(* The rate limiter with a remote API whose reads succeed in the end and   *)
(* whose quota is whole again once the reset has passed.                   *)
(***************************************************************************)
\* Lines 158-161, with a bound on the reads that fail in one call.
NiceBackoff ==
    /\ limiter.pc = "read"
    /\ limiter.failed < MaxReads
    /\ limiter' = [limiter EXCEPT !.reads = @ + 1, !.failed = @ + 1,
                                  !.slept = @ + 1]
    /\ UNCHANGED <<email_to_gh_user, vote, last, prev, shelf, pass, walk,
                   record, caller, importer>>

\* The quota of the domain a read can give after the quota before and the
\* seconds slept since: any at the first read; the whole limit when the
\* reset has passed; otherwise the quota before, with the reset nearer.
Replenished(quota) == quota.remaining = quota.limit /\ quota.reset > 0

QuotasAfter(before, since) ==
    IF before = None THEN Quotas
    ELSE IF since >= before[1].reset
    THEN {quota \in Quotas : Replenished(quota)}
         \cup {[Plenty EXCEPT !.limit = before[1].limit,
                              !.remaining = before[1].limit]}
    ELSE {[before[1] EXCEPT !.reset = @ - since]}

\* Variant: a quota at the limit is not enough to go on.
nice_turn_NeverEnough(precise, rl_domain) ==
    IF rl_domain.reset < 0 THEN [verdict |-> "stale", sleeps |-> 1]
    ELSE [verdict |-> "wait", sleeps |-> (rl_domain.reset % Day) + 3]

\* Lines 165-194: one turn of the outer loop on an answer.
nice_turn(precise, rl_domain) == nice_check(precise, rl_domain)

\* Lines 159-194 with that remote API, with a bound on the turns of the
\* outer loop in one call.
NiceTurn(quota) ==
    LET check == nice_turn(limiter.precise, quota)
        rl == [core |-> quota, search |-> quota]
    IN  /\ limiter.pc = "read"
        /\ limiter.reads - limiter.failed < MaxTurns
        /\ quota \in QuotasAfter(IF limiter.rl = None THEN None
                                 ELSE Some(LastQuota), limiter.since)
        /\ limiter' = [limiter EXCEPT
                          !.pc = IF check.verdict = "wait" THEN "read"
                                 ELSE "idle",
                          !.reads = @ + 1,
                          !.rl = Some(rl),
                          !.verdict = check.verdict,
                          !.since = check.sleeps,
                          !.updates = IF check.verdict = "wait"
                                      THEN check.sleeps ELSE 0,
                          !.slept = @ + check.sleeps]
        /\ UNCHANGED <<email_to_gh_user, vote, last, prev, shelf, pass, walk,
                       record, caller, importer>>

\* The answers that can follow in the state.
NextQuotas ==
    IF limiter.pc = "read"
    THEN QuotasAfter(IF limiter.rl = None THEN None ELSE Some(LastQuota),
                     limiter.since)
    ELSE {}

NextNiceLive ==
    \/ \E quota_domain \in {"core", "search"}, precise \in BOOLEAN :
           NiceCall(quota_domain, precise)
    \/ NiceBackoff
    \/ \E quota \in NextQuotas : NiceTurn(quota)

SpecNiceLive ==
    /\ InitNice
    /\ [][NextNiceLive]_vars
    /\ WF_vars(\E quota \in NextQuotas : NiceTurn(quota))

(***************************************************************************)
(* C24                                                                     *)
(***************************************************************************)
\* C24: a read of the rate limit that fails is followed by a sleep of one
\* second and another read, and nice does not return on it; and with reads
\* that succeed in the end and a quota that is whole again once the reset
\* has passed, every call of nice returns, having waited for no more than
\* the reset of one window.
C24_Termination ==
    /\ [][limiter'.failed > limiter.failed =>
             /\ limiter'.pc = "read"
             /\ limiter'.slept = limiter.slept + 1]_vars
    /\ (limiter.pc = "read" ~> limiter.pc = "idle")
    /\ [](limiter.pc = "read" /\ limiter.rl # None =>
             ~Replenished(LastQuota))

C24_Witness ==
    /\ NiceReturned
    /\ limiter.failed = 2
    /\ limiter.reads = 4
    /\ limiter.slept > 3
    /\ limiter.verdict = "return"
    /\ Replenished(LastQuota)

(***************************************************************************)
(* import_gh_pr.nice                                                       *)
(***************************************************************************)
Max(a, b) == IF a >= b THEN a ELSE b

\* Lines 184-203 on the quota of the core domain: whether nice returns, and
\* the seconds it sleeps first.  (reset_ts - utcnow()).seconds are the
\* seconds within the day, also of a reset that has passed.
importer_check(rl_core) ==
    IF 4 * rl_core.remaining > rl_core.limit
    THEN [verdict |-> "return", sleeps |-> 0]
    ELSE IF rl_core.remaining > 50 THEN [verdict |-> "return", sleeps |-> 1]
    ELSE [verdict |-> "wait", sleeps |-> Max(rl_core.reset % Day, 30)]

(***************************************************************************)
(* The two rate limiters on the same answers of get_rate_limit.            *)
(*   importer  the call of import_gh_pr.nice: the reads it made, the last  *)
(*             answer, what nice made of it, the seconds slept since that  *)
(*             answer and in the whole call                                *)
(*   limiter   the call of gh_utils.nice on the core domain in default     *)
(*             mode                                                        *)
(***************************************************************************)
NoImporter ==
    [pc |-> "idle", reads |-> 0, rl |-> None, verdict |-> "", since |-> 0,
     slept |-> 0]

\* Both are called.
BothCalled ==
    /\ limiter.pc = "idle" /\ importer.pc = "idle"
    /\ limiter' = [NoNice EXCEPT !.pc = "read", !.domain = "core",
                                 !.precise = FALSE]
    /\ importer' = [NoImporter EXCEPT !.pc = "read"]
    /\ UNCHANGED <<email_to_gh_user, vote, last, prev, shelf, pass, walk,
                   record, caller>>

\* Lines 178-181: get_rate_limit raises.
ImporterReadFails ==
    /\ importer.pc = "read"
    /\ importer.reads < MaxReads
    /\ importer' = [importer EXCEPT !.reads = @ + 1, !.slept = @ + 1]

\* Lines 179-203: get_rate_limit answers.
ImporterRead(rl) ==
    LET check == importer_check(rl.core)
    IN  /\ importer.pc = "read"
        /\ importer.reads < MaxReads
        /\ importer' = [importer EXCEPT
                           !.pc = IF check.verdict = "wait" THEN "read"
                                  ELSE "idle",
                           !.reads = @ + 1,
                           !.rl = Some(rl),
                           !.verdict = check.verdict,
                           !.since = check.sleeps,
                           !.slept = @ + check.sleeps]

\* Both read, and get_rate_limit raises for both or gives both the same
\* answer at the same time.
BothFail ==
    /\ limiter.pc = "read" /\ limiter.reads = importer.reads
    /\ ImporterReadFails
    /\ limiter' = AfterFailure(limiter)
    /\ UNCHANGED <<email_to_gh_user, vote, last, prev, shelf, pass, walk,
                   record, caller>>

BothRead(rl) ==
    /\ limiter.pc = "read" /\ limiter.reads = importer.reads
    /\ ImporterRead(rl)
    /\ limiter' = AfterAnswer(limiter, rl)
    /\ UNCHANGED <<email_to_gh_user, vote, last, prev, shelf, pass, walk,
                   record, caller>>

\* gh_utils.nice has returned and import_gh_pr.nice reads on.
ImporterReadsOn(rl) ==
    /\ limiter.pc = "idle"
    /\ ImporterRead(rl)
    /\ UNCHANGED <<email_to_gh_user, vote, last, prev, shelf, pass, walk,
                   limiter, record, caller>>

InitAgree ==
    /\ email_to_gh_user = FreshDatabase
    /\ vote = Idle
    /\ last = NoCall
    /\ prev = Before(NoCall)
    /\ shelf = EmptyShelf
    /\ pass = Unused
    /\ walk = Unused
    /\ limiter = NoNice
    /\ record = Unused
    /\ caller = Unused
    /\ importer = NoImporter

NextAgree ==
    \/ BothCalled
    \/ BothFail
    \/ \E rl \in RateLimits : BothRead(rl)
    \/ \E rl \in RateLimits : ImporterReadsOn(rl)

SpecAgree == InitAgree /\ [][NextAgree]_vars

(***************************************************************************)
(* C25                                                                     *)
(***************************************************************************)
\* C25: on every answer of get_rate_limit both read at the same time,
\* import_gh_pr.nice returns exactly when gh_utils.nice in default mode on
\* the core domain returns; and neither waits for the reset on an answer
\* with the quota spent and the reset in the past.
C25_Agree ==
    /\ [][/\ limiter'.reads > limiter.reads
          /\ importer'.reads > importer.reads
          /\ limiter'.rl # None /\ limiter'.rl = importer'.rl
          => (limiter'.pc = "idle" <=> importer'.pc = "idle")]_vars
    /\ [](importer.rl # None /\ importer.rl[1].core.reset < 0 =>
              importer.verdict # "wait")
    /\ [](limiter.rl # None /\ LastQuota.reset < 0 =>
              limiter.verdict # "wait")

(***************************************************************************)
(* C26                                                                     *)
(***************************************************************************)
\* The pairs of an index, and the pairs of commit id and PR id of the
\* stored Changes in which neither is a sentinel.
Pairs(index) == {<<c, index[c]>> : c \in DOMAIN index}

Indexed(store) ==
    {<<store[k].commit_id, store[k].pr_id>> :
        k \in {key \in DOMAIN store : /\ store[key].commit_id # NotMerged
                                      /\ store[key].pr_id # UnknownPR}}

\* C26: the index is built from the store before the first email of a walk
\* is resolved, holds the pairs of commit id and PR id of the stored Changes
\* in which neither is a sentinel, stays as built while the walk goes on and
\* the consumer writes to the store, and gives the PR id of every triple.
C26_IndexSnapshot ==
    /\ [](walk.pc = "start" =>
             /\ walk.at = 0 /\ walk.triples = <<>>
             /\ \A email \in WalkEmails : walk.searches[email] = 0)
    /\ [][walk.pc = "start" /\ walk'.pc # "start" =>
             Pairs(walk'.sha1_to_pr) = Indexed(shelf)]_vars
    /\ [][walk.pc # "start" /\ walk'.pc # "start" =>
             walk'.sha1_to_pr = walk.sha1_to_pr]_vars
    /\ [](\A k \in 1..Len(walk.triples) :
             walk.triples[k].pr_id =
                 IF walk.triples[k].commit_sha1 \in DOMAIN walk.sha1_to_pr
                 THEN walk.sha1_to_pr[walk.triples[k].commit_sha1]
                 ELSE UnknownPR)

C26_Witness ==
    /\ walk.pc = "done" /\ walk.run = 1
    /\ \E key \in DOMAIN shelf : shelf[key].commit_id = NotMerged
    /\ DOMAIN walk.sha1_to_pr = {Sha(1)}
    /\ walk.writes > 0
    /\ \E k \in 1..Len(walk.triples) : walk.triples[k].pr_id = UnknownPR

(***************************************************************************)
(* C27                                                                     *)
(***************************************************************************)
\* The triples the consumer got in the step.
NewTriples ==
    IF walk'.run = walk.run /\ Len(walk'.triples) >= Len(walk.triples)
    THEN SubSeq(walk'.triples, Len(walk.triples) + 1, Len(walk'.triples))
    ELSE <<>>

\* The users the triples of the step bring to the record under the key.
Brought(key) ==
    {NewTriples[k].gh_user :
        k \in {j \in 1..Len(NewTriples) :
                  /\ NewTriples[j].pr_id # UnknownPR
                  /\ Key(NewTriples[j].pr_id) = key}}

RECURSIVE Sum(_, _)
Sum(f, S) ==
    IF S = {} THEN 0
    ELSE LET x == CHOOSE y \in S : TRUE IN f[x] + Sum(f, S \ {x})

\* C27: the triples of a step change nothing in the store but the
\* contributors of the records of their PRs, to which their users are
\* added; the store is written once for every user that was not a
\* contributor and not at all for the others; a triple with UnknownPR or
\* with a PR without a record changes nothing, and a PR without a record
\* has one warning at most.
C27_ConsumerFrame ==
    /\ [][/\ DOMAIN shelf' = DOMAIN shelf
          /\ \A key \in DOMAIN shelf :
                 /\ \A field \in FieldNames \ {"contributors"} :
                        shelf'[key][field] = shelf[key][field]
                 /\ shelf'[key].contributors =
                        shelf[key].contributors \cup Brought(key)
          /\ walk'.run = walk.run =>
                 walk'.writes - walk.writes =
                     Sum([key \in DOMAIN shelf |->
                             Cardinality(shelf'[key].contributors
                                             \ shelf[key].contributors)],
                         DOMAIN shelf)]_vars
    /\ [](\A k \in 1..Len(walk.unknown_prs) :
             /\ Key(walk.unknown_prs[k]) \notin DOMAIN shelf
             /\ Count(walk.unknown_prs, walk.unknown_prs[k]) = 1)

C27_Witness ==
    /\ walk.pc = "done" /\ walk.run = 1
    /\ shelf \in {Put(Misfiled, Key(1), change_) :
                     change_ \in {[MergedChange(1) EXCEPT
                                      !.contributors = {<<"b">>}]}}
    /\ walk.writes = 1
    /\ walk.unknown_prs = <<2>>
    /\ Len(walk.triples) = 4
    /\ \A k \in 1..4 : walk.triples[k].gh_user = <<"b">>

(***************************************************************************)
(* C28                                                                     *)
(***************************************************************************)
\* C28: the walk is not ended by an email that is not valid, has several
\* accounts or none, by a pull request that cannot be fetched or by a
\* search that fails: the commits after it are walked and the emails not
\* found are voted on.
C28_FailureIsolation ==
    walk.pc = "crashed" =>
        walk.exc \notin {"ValueError", "LookupError", "GithubException"}

(***************************************************************************)
(* C30                                                                     *)
(***************************************************************************)
\* C30: no stored Change has NoUser among its contributors or as the
\* author of a comment, and no triple of the walk has NoUser as its user.
C30_NoUserRecorded ==
    /\ \A key \in DOMAIN shelf :
           /\ NoUser \notin shelf[key].contributors
           /\ \A k \in 1..Len(shelf[key].comments) :
                  shelf[key].comments[k].author # NoUser
    /\ \A k \in 1..Len(walk.triples) : walk.triples[k].gh_user # NoUser

(***************************************************************************)
(* C29                                                                     *)
(***************************************************************************)
\* C29: a turn of the import pass in which is_up_to_date, new_change_from
\* or update_in_place raises leaves the store as it was; no turn takes a
\* record out of the store; and after such a turn the pass goes on with the
\* next pull request.
C29_ImportIsolation ==
    /\ [][pass'.outcome = "error" => shelf' = shelf]_vars
    /\ [][DOMAIN shelf \subseteq DOMAIN shelf']_vars
    /\ [](pass.outcome = "error" =>
             \A pr \in PullRequests : ENABLED ImportPull(pr, TRUE))

C29_Witness ==
    /\ pass.outcome = "error" /\ pass.exc = "ValueError"
    /\ pass.old # None
    /\ shelf[Key(pass.pr[1].number)] = pass.old[1]
    /\ pass.old[1].title # pass.pr[1].title

====
